---- MODULE Spec2Model ----
(***************************************************************************)
(* State-machine model of the rt-evm runtime core: mempool, block manager, *)
(* block/tx storage and the refcounted trie backend.                       *)
(*                                                                         *)
(* Hashes are modelled as the hashed content itself (an injective hash):   *)
(* a trie root is the key->value map it commits to, a block hash is the    *)
(* tuple of the proposal fields it covers.                                 *)
(***************************************************************************)
EXTENDS Integers, Sequences, FiniteSets, TLC

VARIABLES
    \* ---- TinyMempool (crates/mempool) ----
    txs,                    \* BTreeMap<u64, SignedTx>       idx -> tx
    tx_lifetime_fields,     \* BTreeMap<u64, u64>            ts % lifetime -> idx
    broadcast_queue,        \* Vec<SignedTx>
    address_pending_cnter,  \* HashMap<H160, HashMap<Hash, u64>>
    tx_indexer,             \* static TX_INDEXER (decreasing)
    now,                    \* wall clock, ts!()
    ins_pc, ins_tx, ins_idx,\* tx_insert callers: position, argument, local idx
    call_ret,               \* what the last completed mempool call returned
    tx_age,                 \* idx -> seconds since its lifetime field was written
    cl_pc, cl_guard, cl_del,\* cleaner thread: position, idx_gurad, to_del
    cl_next,                \* cleaner thread: end of the current sleep
    lk,                     \* who holds txs, tx_lifetime_fields, broadcast_queue
                            \* and address_pending_cnter (RwLock: writer, readers)
    mp_call,                \* the other mempool call in flight and its position
    \* ---- FunStorage (crates/storage) ----
    blocks,                 \* db.blocks / db.headers        number -> Block
    block_numbers,          \* db.block_numbers              block hash -> number
    latest_block,           \* cache.latest_block : Option<Block>
    transactions,           \* db.transactions               hash -> (number, tx)
    receipts,               \* db.receipts                   tx hash -> Receipt
    \* ---- MptStore (crates/storage/trie_db) ----
    ws_data,                \* world-state backend: node -> refcount
    st_data,                \* MptStore.meta, storage backends: addr -> (node -> refcount)
    query_cache,            \* static QUERY_CACHE: the (root, key) pairs it holds
    staking,                \* Staking.state: validator id -> Validator
    \* ---- BlockMgmt callers (crates/blockmgmt) ----
    exec_lk,                \* EXEC_LK: [writer, readers]
    mgmt,                   \* per producer: its BlockMgmt instance (or NoMgmt)
    pb_pc, pb_txs, pb_out,  \* produce_block: position, argument, (block, receipts)
    call_pc,                \* query-side evm_call in flight
    reexec,                 \* result of the last re-execution of a committed block
    restarts                \* process restarts so far (EvmRuntime::restore)

mempoolVars == <<txs, tx_lifetime_fields, broadcast_queue, address_pending_cnter,
                 tx_indexer, now, ins_pc, ins_tx, ins_idx, call_ret, tx_age,
                 cl_pc, cl_guard, cl_del, cl_next, lk, mp_call>>
storageVars == <<blocks, block_numbers, latest_block, transactions, receipts>>
trieVars    == <<ws_data, st_data, query_cache, staking>>
mgmtVars    == <<exec_lk, mgmt, pb_pc, pb_txs, pb_out, call_pc, reexec, restarts>>
vars        == <<mempoolVars, storageVars, trieVars, mgmtVars>>

-----------------------------------------------------------------------------
(* Bounds of the model *)

Capacity   == 1     \* cfg.capacity
Lifetime   == 7     \* cfg.tx_lifetime_in_secs
IndexStart == 6     \* initial TX_INDEXER (u64::MAX in the program)
MaxInserts == 2     \* tx_insert calls that reach the indexer

\* the mempool is constructed at StartTime; its cleaner first wakes one lifetime
\* later, where the clock of the model stops
StartTime == Lifetime - 1
MaxTime   == StartTime + Lifetime

\* ages are counted up to two lifetimes
AgeCap    == 2 * Lifetime
MaxHeight  == 2     \* highest block number a producer may propose
TakeLimit  == 2     \* the limit given to tx_take_propose
MaxRestarts == 1    \* process restarts explored
CallHeight == 1     \* highest block number next to the sequential callers
MaxDist    == 3     \* entries of a token-distribution list
MaxAmount  == 2     \* highest amount of one entry
MAX_LOG_NUM == 2    \* the cap on the logs of one query (10000 in the program)
AmountBits == 2     \* width of Amount (u128 in the program)

(* Program constants *)

MIN_TRANSACTION_GAS_LIMIT == 21000
MAX_BLOCK_GAS_LIMIT       == 50000000
GET_BLOCK_HASH_NUMBER_RANGE == 256
SCORE_MAX == 100000

\* the gas price is an integer of PriceBits bits: U64_MAX is its largest value
\* (64 bits in the program)
PriceBits == 4
U64_MAX   == 2^PriceBits - 1

\* cfg.tx_gas_cap: tx_gas_cap.unwrap_or(MAX_BLOCK_GAS_LIMIT)
tx_gas_cap == MAX_BLOCK_GAS_LIMIT

\* the seconds the cleaner keeps clear of the current second (alt!(3 > ts_guard, ..))
Slack == 3

-----------------------------------------------------------------------------
(* Finite maps *)

EmptyMap == [x \in {} |-> 0]

MapPut(f, k, v) == [x \in (DOMAIN f) \cup {k} |-> IF x = k THEN v ELSE f[x]]

MapDel(f, K) == [x \in (DOMAIN f) \ K |-> f[x]]

MapGet(f, k, d) == IF k \in DOMAIN f THEN f[k] ELSE d

Max(S) == CHOOSE x \in S : \A y \in S : y <= x

SatSub(a, b) == IF a >= b THEN a - b ELSE 0

Min(a, b) == IF a <= b THEN a ELSE b

-----------------------------------------------------------------------------
(* Accounts and transactions *)

Addr == {"a", "b", "c"}

NoAcc == [exists |-> FALSE]

\* a hash is modelled by the content it was computed from; the hashes that are not
\* trie roots are maps with the single key -1
NIL_HASH == [x \in {-1} |-> 1]

ZERO_HASH == [x \in {-1} |-> 0]

Acct(n, b, sr, ch) ==
    [exists |-> TRUE, nonce |-> n, balance |-> b, storage_root |-> sr, code_hash |-> ch]

DefaultAccount == Acct(0, 0, NIL_HASH, NIL_HASH)

\* the empty trie: every key absent (its root is the backend's null node)
NullRoot == [x \in Addr |-> NoAcc]

EmptyStorageRoot == EmptyMap

\* genesis token distribution applied by EvmRuntime::create
GenesisRoot ==
    [x \in Addr |-> IF x = "a" THEN Acct(0, 100000, EmptyStorageRoot, NIL_HASH)
                    ELSE IF x = "b" THEN Acct(0, 100000000, EmptyStorageRoot, NIL_HASH)
                    ELSE NoAcc]

Transfer(h, s, n, t, v) ==
    [hash |-> h, sender |-> s, nonce |-> n, gas_price |-> 1,
     gas_limit |-> MIN_TRANSACTION_GAS_LIMIT, kind |-> "call", to |-> t,
     value |-> v, slot_val |-> 0]

\* a call to contract/account t whose execution stores sv at slot 0
StoreTx(h, s, n, t, sv) ==
    [hash |-> h, sender |-> s, nonce |-> n, gas_price |-> 1,
     gas_limit |-> MIN_TRANSACTION_GAS_LIMIT, kind |-> "store", to |-> t,
     value |-> 0, slot_val |-> sv]

TxUniverse ==
    { Transfer("h1", "a", 0, "c", 10),
      Transfer("h2", "b", 0, "a", 5),
      StoreTx("h3", "a", 1, "b", 7) }

\* the transactions submitted to the mempool
InsertPool ==
    { Transfer("h1", "a", 0, "c", 10),
      Transfer("h2", "b", 0, "a", 5) }

\* a transfer of 1 from b to a with the given gas price and gas limit
PricedTx(h, price, limit) ==
    [hash |-> h, sender |-> "b", nonce |-> 0, gas_price |-> price,
     gas_limit |-> limit, kind |-> "call", to |-> "a", value |-> 1, slot_val |-> 0]

\* transactions at the edges of the gas price and gas limit ranges of
\* tx_pre_check: just inside
InsideEdgeTxs ==
    { PricedTx("p1", U64_MAX - 1, MIN_TRANSACTION_GAS_LIMIT),
      PricedTx("p4", 1, MIN_TRANSACTION_GAS_LIMIT),
      PricedTx("l1", 1, tx_gas_cap) }

\* at the upper edge of the price width, and outside
OutsideEdgeTxs ==
    { PricedTx("p0", 0, MIN_TRANSACTION_GAS_LIMIT),
      PricedTx("p2", U64_MAX, MIN_TRANSACTION_GAS_LIMIT),
      PricedTx("p3", U64_MAX + 1, MIN_TRANSACTION_GAS_LIMIT),
      PricedTx("l0", 1, MIN_TRANSACTION_GAS_LIMIT - 1),
      PricedTx("l2", 1, tx_gas_cap + 1) }

BoundaryTxs == InsideEdgeTxs \cup OutsideEdgeTxs

\* a transfer from c, which holds nothing
PoorTx == Transfer("h4", "c", 0, "a", 1)

\* the transactions handed to produce_block directly
ExecTxs == TxUniverse \cup {PoorTx, PricedTx("p1", U64_MAX - 1, MIN_TRANSACTION_GAS_LIMIT)}

\* the transaction lists handed to produce_block directly: up to two txs
ExecLists ==
    {<<>>} \cup {<<x>> : x \in ExecTxs}
           \cup {<<x, y>> : x \in ExecTxs, y \in ExecTxs}

\* the transactions submitted by the sequential caller
ApiTxs == TxUniverse \cup OutsideEdgeTxs \cup {PoorTx}

-----------------------------------------------------------------------------
(* Blocks *)

RLP_NULL == [x \in {-1} |-> 2]

\* trie_root_indexed: the root of the trie that maps the index of each hash
\* (from 0) to the hash; NIL_HASH for no hashes
trie_root_indexed(hashes) ==
    IF hashes = <<>> THEN NIL_HASH
    ELSE [i \in 0 .. Len(hashes) - 1 |-> hashes[i + 1]]

\* Proposal::hash: the digest of the encoded proposal, which holds prev_hash,
\* proposer, transactions_root, timestamp, number and the tx_hashes list; the
\* proposer is the same for every block of the model and left out.
ProposalHash(p) ==
    <<p.prev_hash, p.transactions_root, p.timestamp, p.number, p.tx_hashes>>

\* Proposal::from(&Header): the header's fields and no tx hashes
ProposalFromHeader(h) ==
    [prev_hash |-> h.prev_hash, transactions_root |-> h.transactions_root,
     timestamp |-> h.timestamp, number |-> h.number, tx_hashes |-> <<>>]

\* Block::hash / Header::hash
BlockHash(b) == ProposalHash(ProposalFromHeader(b))

GenesisBlock ==
    [prev_hash |-> <<>>, timestamp |-> 0, number |-> 0,
     transactions_root |-> RLP_NULL, tx_hashes |-> <<>>,
     state_root |-> GenesisRoot, gas_used |-> 0]

NoMgmt == [live |-> FALSE]

Producers == {1, 2}

Inserters == {1, 2}

-----------------------------------------------------------------------------
(* FunStorage reads *)

None == [none |-> TRUE]

get_block(n) == MapGet(blocks, n, None)

get_block_header(n) == get_block(n)

get_latest_block ==
    IF latest_block # None THEN latest_block ELSE blocks[Max(DOMAIN blocks)]

get_tx_by_hash(h) == IF h \in DOMAIN transactions THEN transactions[h].tx ELSE None

get_receipt_by_hash(h) == MapGet(receipts, h, None)

(* VsBackend / trie reads *)

\* HashDB::get: the null node is always there, any other node only while rc > 0
NodeLive(data, node, null) ==
    \/ node = null
    \/ node \in DOMAIN data /\ data[node] > 0

\* a world-state trie opened at root: reading any key needs the root node
WsReadable(root) == NodeLive(ws_data, root, NullRoot)

\* TinyMempool::get_account(address, None): the account in the latest state
MempoolGetAccount(address) ==
    LET root == get_latest_block.state_root IN
    IF ~WsReadable(root) THEN [ok |-> FALSE]
    ELSE [ok |-> TRUE,
          acc |-> IF root[address].exists THEN root[address] ELSE DefaultAccount]

-----------------------------------------------------------------------------
(* TinyMempool *)

tx_pending_cnt_all == Cardinality(DOMAIN txs)

tx_pending_cnt(addr) == Cardinality(DOMAIN address_pending_cnter[addr])

\* tx_insert, line 148: the early return "Mempool is full"
MempoolFull == tx_pending_cnt_all > Capacity

\* tx_insert, lines 152-160: the early return "Already cached in mempool"
AlreadyCached(tx) == tx.hash \in DOMAIN address_pending_cnter[tx.sender]

\* tx_pre_check: the error of the first failing check, in the order of the code,
\* or "ok" (check_hash and the signature check pass for every tx of the model)
PreCheckErr(tx, a) ==
    IF tx.gas_price = 0 THEN "The 'gas price' is zero"
    ELSE IF tx.gas_price >= U64_MAX THEN "The 'gas price' exceeds the limition(u64::MAX)"
    ELSE IF tx.gas_limit < MIN_TRANSACTION_GAS_LIMIT THEN "The 'gas limit' less than 21000"
    ELSE IF tx.gas_limit > tx_gas_cap THEN "The 'gas limit' exceeds the gas capacity"
    ELSE IF ~a.ok THEN "get_account failed"
    ELSE IF a.acc.nonce > tx.nonce THEN "Invalid nonce"
    ELSE IF a.acc.balance < tx.gas_price * MIN_TRANSACTION_GAS_LIMIT
         THEN "Insufficient balance to cover possible gas"
    ELSE IF get_tx_by_hash(tx.hash) # None THEN "Historical transaction detected"
    ELSE "ok"

tx_pre_check(tx) == PreCheckErr(tx, MempoolGetAccount(tx.sender)) = "ok"

\* every recorded age one second on
Older(age) == [i \in DOMAIN age |-> Min(age[i] + 1, AgeCap)]

insVars == <<ins_pc, ins_tx, ins_idx, call_ret>>
\* the cleaner thread, and the lock table that only the lock-level steps change
clVars  == <<cl_pc, cl_guard, cl_del, cl_next, lk, mp_call>>
chainVars == <<storageVars, trieVars, mgmtVars>>

\* calls that have passed the capacity check and not yet taken an index
InFlightBeforeIndex ==
    Cardinality({t \in Inserters : ins_pc[t] \in {"cached", "precheck", "broadcast", "index"}})

\* tx_insert(tx): entry and capacity check
InsCheckFull(t, tx) ==
    /\ ins_pc[t] = "idle"
    /\ tx_indexer - InFlightBeforeIndex > IndexStart - MaxInserts
    /\ ~MempoolFull
    /\ ins_pc' = [ins_pc EXCEPT ![t] = "cached"]
    /\ ins_tx' = [ins_tx EXCEPT ![t] = tx]
    /\ UNCHANGED <<txs, tx_lifetime_fields, broadcast_queue, address_pending_cnter,
                   tx_indexer, now, ins_idx, call_ret, tx_age, clVars,
                   chainVars>>

\* tx_insert: duplicate check under the read lock of address_pending_cnter
InsCheckCached(t) ==
    /\ ins_pc[t] = "cached"
    /\ ins_pc' = [ins_pc EXCEPT ![t] = IF AlreadyCached(ins_tx[t]) THEN "idle" ELSE "precheck"]
    /\ UNCHANGED <<txs, tx_lifetime_fields, broadcast_queue, address_pending_cnter,
                   tx_indexer, now, ins_tx, ins_idx, call_ret, tx_age, clVars,
                   chainVars>>

\* tx_insert: tx_pre_check
InsPreCheck(t) ==
    /\ ins_pc[t] = "precheck"
    /\ ins_pc' = [ins_pc EXCEPT ![t] = IF tx_pre_check(ins_tx[t]) THEN "broadcast" ELSE "idle"]
    /\ UNCHANGED <<txs, tx_lifetime_fields, broadcast_queue, address_pending_cnter,
                   tx_indexer, now, ins_tx, ins_idx, call_ret, tx_age, clVars,
                   chainVars>>

\* tx_insert: broadcast_queue.lock().push(tx)
InsBroadcast(t) ==
    /\ ins_pc[t] = "broadcast"
    /\ broadcast_queue' = Append(broadcast_queue, ins_tx[t])
    /\ ins_pc' = [ins_pc EXCEPT ![t] = "index"]
    /\ UNCHANGED <<txs, tx_lifetime_fields, address_pending_cnter,
                   tx_indexer, now, ins_tx, ins_idx, call_ret, tx_age, clVars,
                   chainVars>>

\* tx_insert: idx = TX_INDEXER.fetch_sub(1)
InsIndex(t) ==
    /\ ins_pc[t] = "index"
    /\ ins_idx' = [ins_idx EXCEPT ![t] = tx_indexer]
    /\ tx_indexer' = tx_indexer - 1
    /\ ins_pc' = [ins_pc EXCEPT ![t] = "count"]
    /\ UNCHANGED <<txs, tx_lifetime_fields, broadcast_queue, address_pending_cnter,
                   now, ins_tx, call_ret, tx_age, clVars,
                   chainVars>>

\* tx_insert: address_pending_cnter.write().entry(sender).or_insert().insert(hash, idx)
InsCount(t) ==
    /\ ins_pc[t] = "count"
    /\ address_pending_cnter' =
         [address_pending_cnter EXCEPT ![ins_tx[t].sender] =
             MapPut(@, ins_tx[t].hash, ins_idx[t])]
    /\ ins_pc' = [ins_pc EXCEPT ![t] = "lifetime"]
    /\ UNCHANGED <<txs, tx_lifetime_fields, broadcast_queue,
                   tx_indexer, now, ins_tx, ins_idx, call_ret, tx_age, clVars,
                   chainVars>>

\* tx_insert: tx_lifetime_fields.lock().insert(ts!() % lifetime, idx)
InsLifetime(t) ==
    /\ ins_pc[t] = "lifetime"
    /\ tx_lifetime_fields' = MapPut(tx_lifetime_fields, now % Lifetime, ins_idx[t])
    /\ tx_age' = MapPut(tx_age, ins_idx[t], 0)
    /\ ins_pc' = [ins_pc EXCEPT ![t] = "txs"]
    /\ UNCHANGED <<txs, broadcast_queue, address_pending_cnter,
                   tx_indexer, now, ins_tx, ins_idx, call_ret, clVars,
                   chainVars>>

\* tx_insert: txs.lock().insert(idx, tx); Ok(())
InsTxs(t) ==
    /\ ins_pc[t] = "txs"
    /\ txs' = MapPut(txs, ins_idx[t], ins_tx[t])
    /\ ins_pc' = [ins_pc EXCEPT ![t] = "idle"]
    /\ UNCHANGED <<tx_lifetime_fields, broadcast_queue, address_pending_cnter,
                   tx_indexer, now, ins_tx, ins_idx, call_ret, tx_age, clVars,
                   chainVars>>

\* tx_cleanup(to_del) on given maps: the per-sender map and the tx map after it
CleanupCnter(apc, to_del) ==
    [s \in Addr |-> MapDel(apc[s], {tx.hash : tx \in {x \in to_del : x.sender = s}})]

CleanupTxs(apc, m, to_del) ==
    MapDel(m, {apc[tx.sender][tx.hash] :
                  tx \in {x \in to_del : x.hash \in DOMAIN apc[x.sender]}})

\* tx_cleanup(to_del), both locks held for the whole call
TxCleanup(to_del) ==
    /\ address_pending_cnter' = CleanupCnter(address_pending_cnter, to_del)
    /\ txs' = CleanupTxs(address_pending_cnter, txs, to_del)

TxCleanupCall(to_del) ==
    /\ TxCleanup(to_del)
    /\ UNCHANGED <<tx_lifetime_fields, broadcast_queue, tx_indexer, now, insVars, tx_age,
                   clVars, chainVars>>

\* tx_take_broadcast
TxTakeBroadcast ==
    /\ broadcast_queue # <<>>
    /\ broadcast_queue' = <<>>
    /\ UNCHANGED <<txs, tx_lifetime_fields, address_pending_cnter, tx_indexer, now,
                   insVars, tx_age, clVars, chainVars>>

\* cleaner thread: wake up, compute ts_guard, try_lock and split tx_lifetime_fields,
\* pop_last of the discarded part
CleanerWake ==
    /\ cl_pc = "sleep"
    /\ now >= cl_next
    /\ LET ts_guard   == (now % Lifetime) - 2
           to_discard == {k \in DOMAIN tx_lifetime_fields : k < ts_guard}
           contended  == \E t \in Inserters : ins_pc[t] = "lifetime"
       IN
       \/ /\ (3 > now % Lifetime) \/ contended
          /\ cl_next' = now + Lifetime
          /\ UNCHANGED <<tx_lifetime_fields, cl_pc, cl_guard>>
       \/ /\ ~(3 > now % Lifetime)
          /\ tx_lifetime_fields' = MapDel(tx_lifetime_fields, to_discard)
          /\ IF to_discard = {}
             THEN /\ cl_next' = now + Lifetime
                  /\ UNCHANGED <<cl_pc, cl_guard>>
             ELSE /\ cl_guard' = tx_lifetime_fields[Max(to_discard)]
                  /\ cl_pc' = "del"
                  /\ UNCHANGED cl_next
    /\ UNCHANGED <<txs, broadcast_queue, address_pending_cnter, tx_indexer, now,
                   insVars, tx_age, cl_del, lk, mp_call, chainVars>>

\* cleaner thread: to_del = txs.lock().split_off(&idx_gurad)
CleanerDel ==
    /\ cl_pc = "del"
    /\ LET gone == {i \in DOMAIN txs : i >= cl_guard} IN
       /\ cl_del' = {txs[i] : i \in gone}
       /\ txs' = MapDel(txs, gone)
    /\ cl_pc' = "cnt"
    /\ UNCHANGED <<tx_lifetime_fields, broadcast_queue, address_pending_cnter,
                   tx_indexer, now, insVars, tx_age, cl_guard, cl_next, lk, mp_call, chainVars>>

\* cleaner thread: remove the deleted txs from address_pending_cnter; sleep again
CleanerCnt ==
    /\ cl_pc = "cnt"
    /\ address_pending_cnter' = CleanupCnter(address_pending_cnter, cl_del)
    /\ cl_pc' = "sleep"
    /\ cl_del' = {}
    /\ cl_next' = now + Lifetime
    /\ UNCHANGED <<txs, tx_lifetime_fields, broadcast_queue, tx_indexer, now,
                   insVars, tx_age, cl_guard, lk, mp_call, chainVars>>

\* the clock advances by one second
Tick ==
    /\ now < MaxTime
    /\ now' = now + 1
    /\ tx_age' = Older(tx_age)
    /\ UNCHANGED <<txs, tx_lifetime_fields, broadcast_queue, address_pending_cnter,
                   tx_indexer, insVars, clVars, chainVars>>

\* the clock advances by one second while the cleaner is asleep: its sleep ends
\* exactly when it is due and a pass takes less than a second. Only now % lifetime
\* and the time left to sleep matter, so both times are kept below two lifetimes.
TickCyclic ==
    /\ now < cl_next
    /\ IF now + 1 >= 2 * Lifetime
       THEN /\ now' = now + 1 - Lifetime
            /\ cl_next' = cl_next - Lifetime
       ELSE /\ now' = now + 1
            /\ UNCHANGED cl_next
    /\ tx_age' = Older(tx_age)
    /\ UNCHANGED <<txs, tx_lifetime_fields, broadcast_queue, address_pending_cnter,
                   tx_indexer, insVars, cl_pc, cl_guard, cl_del, lk, mp_call, chainVars>>

-----------------------------------------------------------------------------
(* The mempool at the level of its locks: every guard is taken in a step of its
   own and given back by the step that ends the statement holding it *)

\* the threads: the callers of tx_insert, the cleaner, one caller of the other calls
LockInserters == {t \in Inserters : \A u \in Inserters : t <= u}

\* the txs given to tx_insert and to tx_cleanup in the lock-level steps
LockPool == {tx \in InsertPool : tx.sender = "a"}

Tid(t) == <<"tx_insert", t>>

CleanerTid == <<"cleaner", 0>>

CallerTid == <<"caller", 0>>

Free == <<"free", 0>>

NoLocks == [txs |-> Free, tlf |-> Free, bq |-> Free, apc_w |-> Free, apc_r |-> {}]

NoCall == [op |-> "idle"]

\* the locks tx_cleanup takes, in the order it takes them
CleanupLocksReversed == <<"txs", "apc_w">>

CleanupLocks == <<"apc_w", "txs">>

\* the locks of the other calls: one guard for one statement
CallLocks(op) ==
    IF op = "tx_cleanup" THEN CleanupLocks
    ELSE IF op = "tx_take_broadcast" THEN <<"bq">>
    ELSE IF op = "tx_pending_cnt_of" THEN <<"apc_r">>
    ELSE <<"txs">>

\* a thread is parked in address_pending_cnter.write()
WriterWaits ==
    \/ \E t \in Inserters : ins_pc[t] = "count" /\ lk.apc_w # Tid(t)
    \/ cl_pc = "cnt" /\ lk.apc_w # CleanerTid
    \/ /\ mp_call # NoCall
       /\ mp_call.held < Len(CallLocks(mp_call.op))
       /\ CallLocks(mp_call.op)[mp_call.held + 1] = "apc_w"

\* Mutex::lock / RwLock::write / RwLock::read can return. The RwLock of
\* parking_lot is task-fair: read() blocks while a writer waits, even if only
\* readers hold the lock.
CanLock(m) ==
    IF m = "apc_w" THEN lk.apc_w = Free /\ lk.apc_r = {}
    ELSE IF m = "apc_r" THEN lk.apc_w = Free /\ ~WriterWaits
    ELSE lk[m] = Free

\* the lock table after who has taken m, and after who has dropped its guard of m
Locked(l, m, who) ==
    IF m = "apc_r" THEN [l EXCEPT !.apc_r = @ \cup {who}] ELSE [l EXCEPT ![m] = who]

Unlocked(l, m, who) ==
    IF m = "apc_r" THEN [l EXCEPT !.apc_r = @ \ {who}] ELSE [l EXCEPT ![m] = Free]

Holds(who, m) == IF m = "apc_r" THEN who \in lk.apc_r ELSE lk[m] = who

\* tx_insert: the lock each of its statements takes
InsLockAt(pc) ==
    IF pc = "full" THEN "txs"
    ELSE IF pc = "cached" THEN "apc_r"
    ELSE IF pc = "broadcast" THEN "bq"
    ELSE IF pc = "count" THEN "apc_w"
    ELSE IF pc = "lifetime" THEN "tlf"
    ELSE IF pc = "txs" THEN "txs"
    ELSE "none"

\* tx_insert(tx) is called
LkInsCall(t, tx) ==
    /\ ins_pc[t] = "idle"
    /\ tx_indexer - Cardinality({u \in Inserters : ins_pc[u] \in
                                   {"full", "cached", "precheck", "broadcast", "index"}})
         > IndexStart - MaxInserts
    /\ ins_pc' = [ins_pc EXCEPT ![t] = "full"]
    /\ ins_tx' = [ins_tx EXCEPT ![t] = tx]
    /\ UNCHANGED <<txs, tx_lifetime_fields, broadcast_queue, address_pending_cnter,
                   tx_indexer, now, ins_idx, call_ret, tx_age, clVars, chainVars>>

\* tx_insert: the next statement takes its lock
LkInsLock(t) ==
    /\ InsLockAt(ins_pc[t]) # "none"
    /\ ~Holds(Tid(t), InsLockAt(ins_pc[t]))
    /\ CanLock(InsLockAt(ins_pc[t]))
    /\ lk' = Locked(lk, InsLockAt(ins_pc[t]), Tid(t))
    /\ UNCHANGED <<txs, tx_lifetime_fields, broadcast_queue, address_pending_cnter,
                   tx_indexer, now, insVars, tx_age, cl_pc, cl_guard, cl_del, cl_next,
                   mp_call, chainVars>>

\* tx_insert: the statement at ins_pc[t] ends and drops its guard
LkInsDone(t, next) ==
    /\ ins_pc' = [ins_pc EXCEPT ![t] = next]
    /\ lk' = Unlocked(lk, InsLockAt(ins_pc[t]), Tid(t))
    /\ UNCHANGED <<now, ins_tx, call_ret, cl_pc, cl_guard, cl_del, cl_next, mp_call,
                   chainVars>>

\* tx_insert: self.tx_pending_cnt(None) > capacity, under the lock of txs
LkInsFull(t) ==
    /\ ins_pc[t] = "full" /\ Holds(Tid(t), "txs")
    /\ LkInsDone(t, IF MempoolFull THEN "idle" ELSE "cached")
    /\ UNCHANGED <<txs, tx_lifetime_fields, broadcast_queue, address_pending_cnter,
                   tx_indexer, ins_idx, tx_age>>

\* tx_insert: the duplicate check, under the read lock of address_pending_cnter
LkInsCached(t) ==
    /\ ins_pc[t] = "cached" /\ Holds(Tid(t), "apc_r")
    /\ LkInsDone(t, IF AlreadyCached(ins_tx[t]) THEN "idle" ELSE "precheck")
    /\ UNCHANGED <<txs, tx_lifetime_fields, broadcast_queue, address_pending_cnter,
                   tx_indexer, ins_idx, tx_age>>

\* tx_insert: broadcast_queue.lock().push(tx)
LkInsBroadcast(t) ==
    /\ ins_pc[t] = "broadcast" /\ Holds(Tid(t), "bq")
    /\ broadcast_queue' = Append(broadcast_queue, ins_tx[t])
    /\ LkInsDone(t, "index")
    /\ UNCHANGED <<txs, tx_lifetime_fields, address_pending_cnter, tx_indexer, ins_idx,
                   tx_age>>

\* tx_insert: address_pending_cnter.write()...insert(hash, idx)
LkInsCount(t) ==
    /\ ins_pc[t] = "count" /\ Holds(Tid(t), "apc_w")
    /\ address_pending_cnter' =
         [address_pending_cnter EXCEPT ![ins_tx[t].sender] =
             MapPut(@, ins_tx[t].hash, ins_idx[t])]
    /\ LkInsDone(t, "lifetime")
    /\ UNCHANGED <<txs, tx_lifetime_fields, broadcast_queue, tx_indexer, ins_idx, tx_age>>

\* tx_insert: tx_lifetime_fields.lock().insert(ts!() % lifetime, idx)
LkInsLifetime(t) ==
    /\ ins_pc[t] = "lifetime" /\ Holds(Tid(t), "tlf")
    /\ tx_lifetime_fields' = MapPut(tx_lifetime_fields, now % Lifetime, ins_idx[t])
    /\ LkInsDone(t, "txs")
    /\ UNCHANGED <<txs, broadcast_queue, address_pending_cnter, tx_indexer, ins_idx,
                   tx_age>>

\* tx_insert: txs.lock().insert(idx, tx); Ok(())
LkInsTxs(t) ==
    /\ ins_pc[t] = "txs" /\ Holds(Tid(t), "txs")
    /\ txs' = MapPut(txs, ins_idx[t], ins_tx[t])
    /\ LkInsDone(t, "idle")
    /\ UNCHANGED <<tx_lifetime_fields, broadcast_queue, address_pending_cnter, tx_indexer,
                   ins_idx, tx_age>>

\* the steps of the tx_insert of thread t once it is called; tx_pre_check and the
\* fetch_sub of TX_INDEXER take no lock of the mempool
LkInsStep(t) ==
    \/ LkInsLock(t)
    \/ LkInsFull(t)
    \/ LkInsCached(t)
    \/ InsPreCheck(t)
    \/ LkInsBroadcast(t)
    \/ InsIndex(t)
    \/ LkInsCount(t)
    \/ LkInsLifetime(t)
    \/ LkInsTxs(t)

\* the other calls and their arguments
MempoolCalls ==
    {[op |-> "tx_cleanup", to_del |-> LockPool, held |-> 0]}
    \cup {[op |-> "tx_take_propose", held |-> 0], [op |-> "tx_take_broadcast", held |-> 0],
          [op |-> "tx_pending_cnt", held |-> 0], [op |-> "tx_pending_cnt_of", held |-> 0]}

\* a call other than tx_insert is made
LkCall(c) ==
    /\ mp_call = NoCall
    /\ mp_call' = c
    /\ UNCHANGED <<txs, tx_lifetime_fields, broadcast_queue, address_pending_cnter,
                   tx_indexer, now, insVars, tx_age, cl_pc, cl_guard, cl_del, cl_next, lk,
                   chainVars>>

\* the call takes its next lock
LkCallLock ==
    /\ mp_call # NoCall
    /\ mp_call.held < Len(CallLocks(mp_call.op))
    /\ CanLock(CallLocks(mp_call.op)[mp_call.held + 1])
    /\ lk' = Locked(lk, CallLocks(mp_call.op)[mp_call.held + 1], CallerTid)
    /\ mp_call' = [mp_call EXCEPT !.held = @ + 1]
    /\ UNCHANGED <<txs, tx_lifetime_fields, broadcast_queue, address_pending_cnter,
                   tx_indexer, now, insVars, tx_age, cl_pc, cl_guard, cl_del, cl_next,
                   chainVars>>

\* the lock table after the caller has dropped the guards it holds
RECURSIVE UnlockedAll(_, _)
UnlockedAll(l, ms) ==
    IF ms = <<>> THEN l ELSE UnlockedAll(Unlocked(l, Head(ms), CallerTid), Tail(ms))

\* the call does its work under its guards, drops them and returns
LkCallBody ==
    /\ mp_call # NoCall
    /\ mp_call.held = Len(CallLocks(mp_call.op))
    /\ IF mp_call.op = "tx_cleanup"
       THEN /\ TxCleanup(mp_call.to_del)
            /\ UNCHANGED broadcast_queue
       ELSE IF mp_call.op = "tx_take_broadcast"
       THEN /\ broadcast_queue' = <<>>
            /\ UNCHANGED <<txs, address_pending_cnter>>
       ELSE UNCHANGED <<txs, address_pending_cnter, broadcast_queue>>
    /\ lk' = UnlockedAll(lk, CallLocks(mp_call.op))
    /\ mp_call' = NoCall
    /\ UNCHANGED <<tx_lifetime_fields, tx_indexer, now, insVars, tx_age, cl_pc, cl_guard,
                   cl_del, cl_next, chainVars>>

\* cleaner thread: the sleep ends; the pass goes on only if ts_guard is at least 1
\* and try_lock gets the lock of tx_lifetime_fields at once
LkCleanerWake ==
    /\ cl_pc = "sleep"
    /\ now >= cl_next
    /\ IF 3 > now % Lifetime \/ lk.tlf # Free
       THEN /\ cl_next' = now + Lifetime
            /\ UNCHANGED <<cl_pc, lk>>
       ELSE /\ cl_pc' = "split"
            /\ lk' = Locked(lk, "tlf", CleanerTid)
            /\ UNCHANGED cl_next
    /\ UNCHANGED <<txs, tx_lifetime_fields, broadcast_queue, address_pending_cnter,
                   tx_indexer, now, insVars, tx_age, cl_guard, cl_del, mp_call, chainVars>>

\* cleaner thread: split_off under the lock, then pop_last of the discarded part
LkCleanerSplit ==
    /\ cl_pc = "split"
    /\ tx_lifetime_fields' =
         MapDel(tx_lifetime_fields,
                {k \in DOMAIN tx_lifetime_fields : k < (now % Lifetime) - 2})
    /\ lk' = Unlocked(lk, "tlf", CleanerTid)
    /\ IF {k \in DOMAIN tx_lifetime_fields : k < (now % Lifetime) - 2} = {}
       THEN /\ cl_next' = now + Lifetime
            /\ cl_pc' = "sleep"
            /\ UNCHANGED cl_guard
       ELSE /\ cl_guard' =
                 tx_lifetime_fields[
                     Max({k \in DOMAIN tx_lifetime_fields : k < (now % Lifetime) - 2})]
            /\ cl_pc' = "del"
            /\ UNCHANGED cl_next
    /\ UNCHANGED <<txs, broadcast_queue, address_pending_cnter, tx_indexer, now, insVars,
                   tx_age, cl_del, mp_call, chainVars>>

\* cleaner thread: the lock its next statement takes
CleanerLockAt(pc) == IF pc = "del" THEN "txs" ELSE IF pc = "cnt" THEN "apc_w" ELSE "none"

LkCleanerLock ==
    /\ CleanerLockAt(cl_pc) # "none"
    /\ ~Holds(CleanerTid, CleanerLockAt(cl_pc))
    /\ CanLock(CleanerLockAt(cl_pc))
    /\ lk' = Locked(lk, CleanerLockAt(cl_pc), CleanerTid)
    /\ UNCHANGED <<txs, tx_lifetime_fields, broadcast_queue, address_pending_cnter,
                   tx_indexer, now, insVars, tx_age, cl_pc, cl_guard, cl_del, cl_next,
                   mp_call, chainVars>>

\* cleaner thread: to_del = txs.lock().split_off(&idx_gurad), the guard dropped at
\* the end of the statement
LkCleanerDel ==
    /\ cl_pc = "del" /\ Holds(CleanerTid, "txs")
    /\ cl_del' = {txs[i] : i \in {j \in DOMAIN txs : j >= cl_guard}}
    /\ txs' = MapDel(txs, {j \in DOMAIN txs : j >= cl_guard})
    /\ cl_pc' = "cnt"
    /\ lk' = Unlocked(lk, "txs", CleanerTid)
    /\ UNCHANGED <<tx_lifetime_fields, broadcast_queue, address_pending_cnter,
                   tx_indexer, now, insVars, tx_age, cl_guard, cl_next, mp_call, chainVars>>

\* cleaner thread: the deleted txs leave address_pending_cnter; sleep again
LkCleanerCnt ==
    /\ cl_pc = "cnt" /\ Holds(CleanerTid, "apc_w")
    /\ address_pending_cnter' = CleanupCnter(address_pending_cnter, cl_del)
    /\ cl_pc' = "sleep"
    /\ cl_del' = {}
    /\ cl_next' = now + Lifetime
    /\ lk' = Unlocked(lk, "apc_w", CleanerTid)
    /\ UNCHANGED <<txs, tx_lifetime_fields, broadcast_queue, tx_indexer, now,
                   insVars, tx_age, cl_guard, mp_call, chainVars>>

\* the clock of the lock-level mempool: a second passes while the cleaner sleeps
LkTick ==
    /\ now < cl_next
    /\ now < MaxTime
    /\ now' = now + 1
    /\ UNCHANGED <<txs, tx_lifetime_fields, broadcast_queue, address_pending_cnter,
                   tx_indexer, insVars, tx_age, cl_pc, cl_guard, cl_del, cl_next, lk,
                   mp_call, chainVars>>

-----------------------------------------------------------------------------
(* VsBackend (HashDB) and trie handles *)

\* HashDB::remove: decrement the refcount, the node stays in the map
HashDbRemove(data, node, null) ==
    IF node # null /\ node \in DOMAIN data /\ data[node] > 0
    THEN [data EXCEPT ![node] = @ - 1]
    ELSE data

\* HashDB::emplace / insert: nothing for the null node, otherwise refcount + 1
\* (a dead entry is revived with refcount 1)
HashDbEmplace(data, node, null) ==
    IF node = null THEN data
    ELSE IF node \in DOMAIN data THEN [data EXCEPT ![node] = @ + 1]
    ELSE MapPut(data, node, 1)

\* MptOnce::commit (TrieDBMut::commit): when the content changed, the replaced
\* root node goes to the death row and is removed, the new root node is inserted
TrieCommit(data, base, cur, null) ==
    IF cur = base THEN data
    ELSE HashDbEmplace(HashDbRemove(data, base, null), cur, null)

\* a put_backend that registers the key without looking for an older entry
TrieCreateOverwrites(st, key) == [ok |-> TRUE, st |-> MapPut(st, key, EmptyMap)]

\* MptStore::trie_create(backend_key, ..) / put_backend: [ok, st]
TrieCreate(st, key) ==
    IF key \in DOMAIN st
    THEN [ok |-> FALSE, st |-> st]
    ELSE [ok |-> TRUE, st |-> MapPut(st, key, EmptyMap)]

\* MptStore::trie_restore(backend_key, root) / get_backend: [ok, st]
TrieRestore(st, key) == [ok |-> key \in DOMAIN st, st |-> st]

-----------------------------------------------------------------------------
(* RTEvmExecutorAdapter: a world-state handle over the trie store *)

\* from_root(state_root, triedb, storage, ctx)
FromRoot(ws, st, root) ==
    [ws |-> ws, st |-> st, base |-> root, cur |-> root,
     readable |-> NodeLive(ws, root, NullRoot), ok |-> TRUE, resps |-> <<>>,
     logs |-> <<>>]

\* ExecutorAdapter::get_account: a failed read yields the default account
AdapterGetAccount(E, address) ==
    IF E.readable /\ E.cur[address].exists THEN E.cur[address] ELSE DefaultAccount

\* ExecutorAdapter::save_account: pnk!(state.insert(..)) panics when the trie
\* cannot be read
AdapterSaveAccount(E, address, acc) ==
    IF ~E.readable THEN [E EXCEPT !.ok = FALSE]
    ELSE [E EXCEPT !.cur = [E.cur EXCEPT ![address] = acc]]

\* ExecutorAdapter::commit
AdapterCommit(E) ==
    [E EXCEPT !.ws = TrieCommit(E.ws, E.base, E.cur, NullRoot), !.base = E.cur]

IsZeroHash(h) == h = ZERO_HASH

\* storage trie content after `writes`; a write to a trie whose root node cannot
\* be read fails and is ignored (let _ = storage_trie.insert(..))
StorageAfter(data, root, writes) ==
    IF writes = EmptyMap \/ ~NodeLive(data, root, EmptyStorageRoot) THEN root
    ELSE [k \in (DOMAIN root) \cup (DOMAIN writes) |->
             IF k \in DOMAIN writes THEN writes[k] ELSE root[k]]

\* RTEvmExecutorAdapter::apply, its end: the storage trie is committed and the
\* account is written to the world state with the new storage root
ApplyStore(E, address, balance, nonce, st, oldroot, newroot, code_hash) ==
    [E EXCEPT !.st  = MapPut(st, address,
                             TrieCommit(st[address], oldroot, newroot, EmptyStorageRoot)),
              !.cur = [E.cur EXCEPT ![address] = Acct(nonce, balance, newroot, code_hash)]]

\* RTEvmExecutorAdapter::apply after the storage trie was opened (`open`); a
\* failed trie_create / trie_restore or a failed state.insert panics
ApplyOpened(E, address, balance, nonce, writes, open, oldroot, code_hash) ==
    IF ~open.ok \/ ~E.readable THEN [E EXCEPT !.ok = FALSE, !.st = open.st]
    ELSE ApplyStore(E, address, balance, nonce, open.st, oldroot,
                    StorageAfter(open.st[address], oldroot, writes), code_hash)

AccountExists(E, address) == E.readable /\ E.cur[address].exists

\* RTEvmExecutorAdapter::apply(address, basic, code = None, storage,
\* reset_storage = false): trie_restore for an existing account, trie_create for
\* a new one
AdapterApply(E, address, balance, nonce, writes) ==
    ApplyOpened(E, address, balance, nonce, writes,
                IF AccountExists(E, address) THEN TrieRestore(E.st, address)
                ELSE TrieCreate(E.st, address),
                IF AccountExists(E, address) THEN E.cur[address].storage_root
                ELSE EmptyStorageRoot,
                AdapterGetAccount(E, address).code_hash)

\* ApplyBackend::apply, Apply::Modify: when apply reports the account empty and
\* delete_empty is set, the account is removed from the world state and its
\* storage backend is dropped (trie_remove)
DeleteIfEmpty(E, v, delete_empty) ==
    IF /\ E.ok /\ delete_empty
       /\ v.balance = 0 /\ v.nonce = 0
       /\ IsZeroHash(AdapterGetAccount(E, v.address).code_hash)
    THEN [E EXCEPT !.cur = [E.cur EXCEPT ![v.address] = NoAcc],
                   !.st  = MapDel(E.st, {v.address})]
    ELSE E

\* ApplyBackend::apply(values, logs, delete_empty) for the Apply::Modify values
\* of one transaction, in address order
RECURSIVE ApplyValues(_, _, _)
ApplyValues(E, values, delete_empty) ==
    IF values = <<>> \/ ~E.ok THEN E
    ELSE ApplyValues(
            DeleteIfEmpty(AdapterApply(E, Head(values).address, Head(values).balance,
                                       Head(values).nonce, Head(values).storage),
                          Head(values), delete_empty),
            Tail(values), delete_empty)

-----------------------------------------------------------------------------
(* RTEvmExecutor *)

AddrOrder == <<"a", "b", "c">>

\* the accounts a call touches, in the order the executor hands them to apply
TouchedAddrs(tx) == SelectSeq(AddrOrder, LAMBDA a : a = tx.sender \/ a = tx.to)

\* the Apply::Modify value of a touched account after a successful call
ModifyOf(E, tx, a) ==
    [address |-> a,
     nonce   |-> AdapterGetAccount(E, a).nonce + (IF a = tx.sender THEN 1 ELSE 0),
     balance |-> AdapterGetAccount(E, a).balance
                    - (IF a = tx.sender THEN tx.value ELSE 0)
                    + (IF a = tx.to THEN tx.value ELSE 0),
     storage |-> IF a = tx.to /\ tx.kind = "store"
                 THEN MapPut(EmptyMap, 0, tx.slot_val) ELSE EmptyMap]

ModifiesOf(E, tx, addrs) == [i \in 1 .. Len(addrs) |-> ModifyOf(E, tx, addrs[i])]

\* transact_create of a creation code that is the INVALID opcode: the creation
\* fails and all the gas of the transaction is used
CreateTransact(E, tx) ==
    [succeed |-> FALSE, exit |-> "invalid opcode", used_gas |-> tx.gas_limit,
     values |-> <<>>, logs |-> <<>>]

\* the StackExecutor (evm crate) on a plain call: [succeed, exit, used_gas, values,
\* logs]. The call fails when the sender cannot pay the value; a storing contract
\* logs what it stored.
CallTransact(E, tx) ==
    [succeed  |-> AdapterGetAccount(E, tx.sender).balance >= tx.value,
     exit     |-> IF AdapterGetAccount(E, tx.sender).balance >= tx.value
                  THEN "succeed" ELSE "out of fund",
     used_gas |-> MIN_TRANSACTION_GAS_LIMIT,
     values   |-> IF AdapterGetAccount(E, tx.sender).balance >= tx.value
                  THEN ModifiesOf(E, tx, TouchedAddrs(tx)) ELSE <<>>,
     logs     |-> IF AdapterGetAccount(E, tx.sender).balance >= tx.value
                     /\ tx.kind = "store"
                  THEN <<[address |-> tx.to, data |-> tx.slot_val]>> ELSE <<>>]

\* evm_exec: executor.transact_call or executor.transact_create, by the action
EvmTransact(E, tx) ==
    IF tx.kind = "create" THEN CreateTransact(E, tx) ELSE CallTransact(E, tx)

\* the TxResp of a call as evm_exec returns it: logs empty, no code address
AppendResp(E, exit, gas_used) ==
    [E EXCEPT !.resps = Append(@, [exit |-> exit, gas_used |-> gas_used,
                                   logs |-> <<>>, code_address |-> None])]

\* an evm_exec that leaves the nonce as it is on the invalid-nonce path
ExecInvalidNonceKeepsNonce(E, tx, account) ==
    AppendResp(
        AdapterSaveAccount(E, tx.sender,
            [account EXCEPT
                !.balance = SatSub(@, tx.gas_price * MIN_TRANSACTION_GAS_LIMIT)]),
        "invalid nonce", MIN_TRANSACTION_GAS_LIMIT)

\* an evm_exec that refunds the remaining gas without setting the nonce
ExecRefundKeepsNonce(E, tx, current_nonce, r) ==
    AppendResp(
        IF E.ok
        THEN AdapterSaveAccount(E, tx.sender,
                [AdapterGetAccount(E, tx.sender) EXCEPT
                    !.balance = @ + (tx.gas_limit - r.used_gas) * tx.gas_price])
        ELSE E,
        r.exit, r.used_gas)

\* evm_exec, invalid nonce: the minimal fee is charged and the nonce incremented
ExecInvalidNonce(E, tx, account) ==
    AppendResp(
        AdapterSaveAccount(E, tx.sender,
            [account EXCEPT
                !.balance = SatSub(@, tx.gas_price * MIN_TRANSACTION_GAS_LIMIT),
                !.nonce = account.nonce + 1]),
        "invalid nonce", MIN_TRANSACTION_GAS_LIMIT)

\* evm_exec, its end: the sender's nonce is set and the remaining gas refunded
ExecRefund(E, tx, current_nonce, r) ==
    AppendResp(
        IF E.ok
        THEN AdapterSaveAccount(E, tx.sender,
                [AdapterGetAccount(E, tx.sender) EXCEPT
                    !.nonce = current_nonce + 1,
                    !.balance = @ + (tx.gas_limit - r.used_gas) * tx.gas_price])
        ELSE E,
        r.exit, r.used_gas)

\* an evm_exec that credits the recipient of a call whatever the exit reason
ExecApplyAnyExit(E, tx, current_nonce, r) ==
    ExecRefund(IF ~E.ok THEN E
               ELSE IF r.succeed THEN [ApplyValues(E, r.values, TRUE) EXCEPT !.logs = r.logs]
               ELSE AdapterSaveAccount(E, tx.to,
                        [AdapterGetAccount(E, tx.to) EXCEPT !.balance = @ + tx.value]),
               tx, current_nonce, r)

\* ApplyBackend::apply, its end: exec_ctx.logs = logs
SetLogs(E, logs) == IF E.ok THEN [E EXCEPT !.logs = logs] ELSE E

\* evm_exec: the values and logs of a successful call are applied
ExecApply(E, tx, current_nonce, r) ==
    ExecRefund(IF E.ok /\ r.succeed
               THEN SetLogs(ApplyValues(E, r.values, TRUE), r.logs) ELSE E,
               tx, current_nonce, r)

\* evm_exec after the prepayment was saved: the call runs on that state
ExecTransact(E, tx, current_nonce) ==
    ExecApply(E, tx, current_nonce, EvmTransact(E, tx))

\* evm_exec with the sender's account read
ExecWithAccount(E, tx, account) ==
    IF tx.nonce # account.nonce THEN ExecInvalidNonce(E, tx, account)
    ELSE ExecTransact(
            AdapterSaveAccount(E, tx.sender,
                [account EXCEPT !.balance = SatSub(@, tx.gas_price * tx.gas_limit)]),
            tx, account.nonce)

\* RTEvmExecutor::evm_exec on the prepay/refund path
EvmExec(E, tx) == ExecWithAccount(E, tx, AdapterGetAccount(E, tx.sender))

CommitIfOk(E) == IF E.ok THEN AdapterCommit(E) ELSE E

\* exec: r.logs = backend.get_logs(), which empties exec_ctx.logs
TakeLogs(E) ==
    IF ~E.ok \/ E.resps = <<>> THEN E
    ELSE [E EXCEPT !.resps[Len(E.resps)].logs = E.logs, !.logs = <<>>]

\* RTEvmExecutor::exec: every transaction in order, a commit after each one and
\* one at the end. A panic (ok = FALSE) unwinds: dropping the handle commits
\* what it holds.
RECURSIVE ExecLoop(_, _)
ExecLoop(E, list) ==
    IF ~E.ok \/ list = <<>> THEN AdapterCommit(E)
    ELSE ExecLoop(TakeLogs(CommitIfOk(EvmExec(E, Head(list)))), Tail(list))

ExecResp(E) ==
    [ok |-> E.ok, state_root |-> E.cur, txs_resp |-> E.resps, ws |-> E.ws, st |-> E.st]

\* [ok, state_root, txs_resp, ws, st]
Exec(ws, st, root, list) == ExecResp(ExecLoop(FromRoot(ws, st, root), list))

-----------------------------------------------------------------------------
(* Sequential use of the mempool, as the block producer's thread sees it *)

\* tx_insert(tx) run to completion by a single caller
TxInsert(tx) ==
    /\ \A t \in Inserters : ins_pc[t] = "idle"
    /\ tx_indexer > IndexStart - MaxInserts
    /\ ~MempoolFull
    /\ ~AlreadyCached(tx)
    /\ tx_pre_check(tx)
    /\ broadcast_queue' = Append(broadcast_queue, tx)
    /\ tx_indexer' = tx_indexer - 1
    /\ address_pending_cnter' =
         [address_pending_cnter EXCEPT ![tx.sender] = MapPut(@, tx.hash, tx_indexer)]
    /\ tx_lifetime_fields' = MapPut(tx_lifetime_fields, now % Lifetime, tx_indexer)
    /\ tx_age' = MapPut(tx_age, tx_indexer, 0)
    /\ txs' = MapPut(txs, tx_indexer, tx)
    /\ UNCHANGED <<now, insVars, clVars, chainVars>>

\* tx_insert(tx): the error it returns, or "ok"
TxInsertErr(tx) ==
    IF MempoolFull THEN "Mempool is full"
    ELSE IF AlreadyCached(tx) THEN "Already cached in mempool"
    ELSE PreCheckErr(tx, MempoolGetAccount(tx.sender))

\* a tx_insert that pushes to the broadcast queue before tx_pre_check
PushBeforePreCheck(err) == err \notin {"Mempool is full", "Already cached in mempool"}

\* tx_insert: `self.tx_pre_check(..)?` comes before the push to the broadcast
\* queue, so the push is reached only when no check failed
ReachesBroadcast(err) == err = "ok"

\* tx_insert whose checks gave err: the maps are written only after the checks
TxInsertMaps(tx, err) ==
    /\ broadcast_queue' = IF ReachesBroadcast(err) THEN Append(broadcast_queue, tx)
                          ELSE broadcast_queue
    /\ IF err = "ok"
       THEN /\ tx_indexer' = tx_indexer - 1
            /\ address_pending_cnter' =
                 [address_pending_cnter EXCEPT ![tx.sender] = MapPut(@, tx.hash, tx_indexer)]
            /\ tx_lifetime_fields' = MapPut(tx_lifetime_fields, now % Lifetime, tx_indexer)
            /\ tx_age' = MapPut(tx_age, tx_indexer, 0)
            /\ txs' = MapPut(txs, tx_indexer, tx)
       ELSE UNCHANGED <<tx_indexer, address_pending_cnter, tx_lifetime_fields, tx_age, txs>>
    /\ UNCHANGED <<now, ins_pc, ins_tx, ins_idx, clVars, chainVars>>

\* tx_insert with its result handed to the caller
TxInsertWith(tx, err) ==
    /\ call_ret' = [op |-> "tx_insert", tx |-> tx, ret |-> err]
    /\ TxInsertMaps(tx, err)

\* tx_insert(tx) by a single caller, with its result
TxInsertCall(tx) ==
    /\ \A t \in Inserters : ins_pc[t] = "idle"
    /\ TxInsertErr(tx) = "ok" => tx_indexer > IndexStart - MaxInserts
    /\ TxInsertWith(tx, TxInsertErr(tx))

\* the entries of a tx_take_propose that iterates without rev(): the smallest indices
TakeNewest(limit) ==
    {i \in DOMAIN txs : Cardinality({j \in DOMAIN txs : j < i}) < limit}

\* the entries tx_take_propose looks at: txs.iter().rev().take(limit)
TakeChosen(limit) ==
    {i \in DOMAIN txs : Cardinality({j \in DOMAIN txs : j > i}) < limit}

\* the comparator of tx_take_propose: gas price descending, then nonce ascending
SortsBefore(x, y) ==
    \/ x.gas_price > y.gas_price
    \/ x.gas_price = y.gas_price /\ x.nonce < y.nonce

\* every result sort_unstable_by may give for tx_take_propose(limit)
TxTakePropose(limit) ==
    LET S == TakeChosen(limit)
        n == Cardinality(S)
    IN { [k \in 1 .. n |-> txs[f[k]]] :
           f \in { g \in [1 .. n -> S] :
                     /\ \A a, b \in 1 .. n : a # b => g[a] # g[b]
                     /\ \A a, b \in 1 .. n :
                           a < b => ~SortsBefore(txs[g[b]], txs[g[a]]) } }

\* tx_take_propose(limit) by a single caller, with its result
TakeProposeCall(limit) ==
    /\ \A t \in Inserters : ins_pc[t] = "idle"
    /\ \E list \in TxTakePropose(limit) :
          call_ret' = [op |-> "tx_take_propose", limit |-> limit, ret |-> list]
    /\ UNCHANGED <<txs, tx_lifetime_fields, broadcast_queue, address_pending_cnter,
                   tx_indexer, now, ins_pc, ins_tx, ins_idx, tx_age, clVars, chainVars>>

-----------------------------------------------------------------------------
(* BlockMgmt *)

SeqToSet(sq) == {sq[i] : i \in 1 .. Len(sq)}

RECURSIVE SumGas(_)
SumGas(resps) ==
    IF resps = <<>> THEN 0 ELSE Head(resps).gas_used + SumGas(Tail(resps))

\* the hashes of a transaction list, in order
HashesOf(list) == [i \in 1 .. Len(list) |-> list[i].hash]

\* BlockMgmt::generate_proposal(txs)
generate_proposal(m, list) ==
    [prev_hash         |-> m.prev_block_hash,
     transactions_root |-> trie_root_indexed(HashesOf(list)),
     timestamp         |-> m.block_timestamp,
     number            |-> m.block_number,
     tx_hashes         |-> HashesOf(list)]

\* Block::new(proposal, &exec_resp)
BlockNew(proposal, resp) ==
    [prev_hash         |-> proposal.prev_hash,
     timestamp         |-> proposal.timestamp,
     number            |-> proposal.number,
     transactions_root |-> proposal.transactions_root,
     tx_hashes         |-> proposal.tx_hashes,
     state_root        |-> resp.state_root,
     gas_used          |-> SumGas(resp.txs_resp)]

\* generate_block: Block::new(generate_proposal(txs), &exec_resp)
NewBlock(m, list, resp) == BlockNew(generate_proposal(m, list), resp)

\* generate_receipts: log_index when the receipt of position i is built
RECURSIVE LogsBefore(_, _)
LogsBefore(resps, i) ==
    IF i <= 1 THEN 0 ELSE LogsBefore(resps, i - 1) + Len(resps[i - 1].logs)

\* generate_receipts(block_number, block_hash, state_root, txs, resp)
generate_receipts(block, list, resp) ==
    [i \in 1 .. Len(list) |->
        [tx_hash      |-> list[i].hash,
         block_number |-> block.number,
         block_hash   |-> BlockHash(block),
         tx_index     |-> i - 1,
         used_gas     |-> resp.txs_resp[i].gas_used,
         logs         |-> resp.txs_resp[i].logs,
         code_address |-> resp.txs_resp[i].code_address,
         ret          |-> resp.txs_resp[i].exit,
         log_index    |-> LogsBefore(resp.txs_resp, i)]]

\* FunStorage::insert_txs(block_number, signed_txs)
RECURSIVE InsertTxs(_, _, _)
InsertTxs(db, number, list) ==
    IF list = <<>> THEN db
    ELSE InsertTxs(MapPut(db, Head(list).hash, [number |-> number, tx |-> Head(list)]),
                   number, Tail(list))

\* FunStorage::insert_receipts(_, receipts)
RECURSIVE InsertReceipts(_, _)
InsertReceipts(db, rs) ==
    IF rs = <<>> THEN db
    ELSE InsertReceipts(MapPut(db, Head(rs).tx_hash, Head(rs)), Tail(rs))

\* BlockMgmt::new(proposer, timestamp, mempool, trie, storage)
BlockMgmtNew(p) ==
    /\ pb_pc[p] = "idle"
    /\ get_latest_block.number + 1 <= MaxHeight
    /\ mgmt' = [mgmt EXCEPT ![p] =
                  [live            |-> TRUE,
                   prev_block_hash |-> BlockHash(get_latest_block),
                   prev_state_root |-> get_latest_block.state_root,
                   block_number    |-> 1 + get_latest_block.number,
                   block_timestamp |-> now]]
    /\ UNCHANGED <<mempoolVars, storageVars, trieVars, exec_lk, pb_pc, pb_txs, pb_out,
                   call_pc, reexec, restarts>>

\* the caller fetches the transactions of its next block: tx_take_propose(limit)
PbTake(p) ==
    /\ pb_pc[p] = "idle"
    /\ mgmt[p].live
    /\ \E list \in TxTakePropose(TakeLimit) : pb_txs' = [pb_txs EXCEPT ![p] = list]
    /\ UNCHANGED <<mempoolVars, storageVars, trieVars, exec_lk, mgmt, pb_pc, pb_out,
                   call_pc, reexec, restarts>>

\* the caller of produce_block with a transaction list of its own
PbGiven(p, list) ==
    /\ pb_pc[p] = "idle"
    /\ mgmt[p].live
    /\ pb_txs' = [pb_txs EXCEPT ![p] = list]
    /\ UNCHANGED <<mempoolVars, storageVars, trieVars, exec_lk, mgmt, pb_pc, pb_out,
                   call_pc, reexec, restarts>>

\* produce_block: let lk = EXEC_LK.write()
PbLock(p) ==
    /\ pb_pc[p] = "idle"
    /\ mgmt[p].live
    /\ exec_lk.writer = 0 /\ exec_lk.readers = 0
    /\ exec_lk' = [exec_lk EXCEPT !.writer = p]
    /\ pb_pc' = [pb_pc EXCEPT ![p] = "generate"]
    /\ UNCHANGED <<mempoolVars, storageVars, trieVars, mgmt, pb_txs, pb_out,
                   call_pc, reexec, restarts>>

\* produce_block: generate_block (exec on the parent state root, tx_cleanup,
\* Block::new, generate_receipts); a panic in exec unwinds and drops the guard
PbGenerate(p) ==
    /\ pb_pc[p] = "generate"
    /\ LET r == Exec(ws_data, st_data, mgmt[p].prev_state_root, pb_txs[p]) IN
       /\ ws_data' = r.ws
       /\ st_data' = r.st
       /\ IF r.ok
          THEN LET block == NewBlock(mgmt[p], pb_txs[p], r) IN
               /\ TxCleanup(SeqToSet(pb_txs[p]))
               /\ pb_out' = [pb_out EXCEPT ![p] =
                    [block |-> block,
                     receipts |-> generate_receipts(block, pb_txs[p], r)]]
               /\ pb_pc' = [pb_pc EXCEPT ![p] = "insert_txs"]
               /\ UNCHANGED <<exec_lk, pb_txs>>
          ELSE /\ exec_lk' = [exec_lk EXCEPT !.writer = 0]
               /\ pb_pc' = [pb_pc EXCEPT ![p] = "idle"]
               /\ pb_txs' = [pb_txs EXCEPT ![p] = <<>>]
               /\ UNCHANGED <<txs, address_pending_cnter, pb_out>>
    /\ UNCHANGED <<tx_lifetime_fields, broadcast_queue, tx_indexer, now, insVars, tx_age,
                   clVars, storageVars, query_cache, staking, mgmt, call_pc, reexec, restarts>>

\* produce_block: self.storage.insert_txs(header.number, txs)
PbInsertTxs(p) ==
    /\ pb_pc[p] = "insert_txs"
    /\ transactions' = InsertTxs(transactions, pb_out[p].block.number, pb_txs[p])
    /\ pb_pc' = [pb_pc EXCEPT ![p] = "insert_receipts"]
    /\ UNCHANGED <<mempoolVars, blocks, block_numbers, latest_block, receipts,
                   trieVars, exec_lk, mgmt, pb_txs, pb_out, call_pc, reexec, restarts>>

\* produce_block: self.storage.insert_receipts(header.number, receipts)
PbInsertReceipts(p) ==
    /\ pb_pc[p] = "insert_receipts"
    /\ receipts' = InsertReceipts(receipts, pb_out[p].receipts)
    /\ pb_pc' = [pb_pc EXCEPT ![p] = "set_block"]
    /\ UNCHANGED <<mempoolVars, blocks, block_numbers, latest_block, transactions,
                   trieVars, exec_lk, mgmt, pb_txs, pb_out, call_pc, reexec, restarts>>

\* produce_block: self.storage.set_block(block); on return the guard is dropped
\* and the transaction vector, moved into the call, is gone
PbSetBlock(p) ==
    /\ pb_pc[p] = "set_block"
    /\ LET block == pb_out[p].block IN
       /\ block_numbers' = MapPut(block_numbers, BlockHash(block), block.number)
       /\ blocks' = MapPut(blocks, block.number, block)
       /\ latest_block' = block
    /\ exec_lk' = [exec_lk EXCEPT !.writer = 0]
    /\ pb_pc' = [pb_pc EXCEPT ![p] = "idle"]
    /\ pb_txs' = [pb_txs EXCEPT ![p] = <<>>]
    /\ pb_out' = [pb_out EXCEPT ![p] = None]
    /\ UNCHANGED <<mempoolVars, transactions, receipts, trieVars, mgmt,
                   call_pc, reexec, restarts>>

-----------------------------------------------------------------------------
(* produce_block with system contracts *)

\* gas a contract creation uses when its creation code reverts at once
\* (Config::london, gas_transaction_create)
CreateGas == 53000

\* the hash of the Legacy Create transaction exec builds for a system contract:
\* it depends on the nonce of the contract's address at deployment
SystemHashes == <<"s0", "s1", "s2", "s3", "s4", "s5", "s6", "s7">>

SystemTx(contract, current_nonce) ==
    [hash |-> SystemHashes[Min(current_nonce, Len(SystemHashes) - 1) + 1],
     sender |-> contract.address, nonce |-> current_nonce,
     gas_price |-> contract.gas_price, gas_limit |-> 0, kind |-> "create",
     to |-> contract.address, value |-> 0, slot_val |-> 0]

\* the system contracts of the model: creation code that reverts, deployed from c
SystemContract == [address |-> "c", gas_price |-> 1, code |-> "revert"]

SystemContractLists == {<<>>, <<SystemContract>>, <<SystemContract, SystemContract>>}

\* deploy_system_contract: transact_create does not succeed, nothing is applied;
\* the nonce of the contract's address is incremented and saved
deploy_system_contract(E, contract) ==
    [AdapterSaveAccount(E, contract.address,
        [AdapterGetAccount(E, contract.address) EXCEPT !.nonce = @ + 1])
     EXCEPT !.resps =
        Append(@, [exit |-> "revert", gas_used |-> CreateGas, logs |-> <<>>,
                   code_address |-> [sender |-> contract.address,
                                     nonce  |-> AdapterGetAccount(E, contract.address).nonce]])]

\* exec, its first loop: every system contract is deployed, its TxResp pushed to
\* res and its transaction to system_txs; [E, system_txs]
RECURSIVE DeployLoop(_, _, _)
DeployLoop(E, contracts, system_txs) ==
    IF ~E.ok \/ contracts = <<>> THEN [E |-> E, system_txs |-> system_txs]
    ELSE DeployLoop(TakeLogs(CommitIfOk(deploy_system_contract(E, Head(contracts)))),
                    Tail(contracts),
                    Append(system_txs,
                           SystemTx(Head(contracts),
                                    AdapterGetAccount(E, Head(contracts).address).nonce)))

\* exec(backend, txs, Some(contracts)): the responses of the system contracts
\* come first in txs_resp, those of txs after them
ExecAfterDeploy(D, list) ==
    [resp |-> ExecResp(ExecLoop(D.E, list)), system_txs |-> D.system_txs]

ExecSystem(ws, st, root, list, contracts) ==
    ExecAfterDeploy(DeployLoop(FromRoot(ws, st, root), contracts, <<>>), list)

\* generate_block: tmp = txs ++ system_txs is what generate_receipts zips with
\* exec_resp.txs_resp
SystemReceipts(block, list, x) == generate_receipts(block, list \o x.system_txs, x.resp)

\* produce_block after generate_block: insert_txs(number, txs),
\* insert_receipts(number, receipts), set_block(block), Ok(header)
ProducePersist(p, list, contracts, x, block) ==
    /\ TxCleanup(SeqToSet(list))
    /\ transactions' = InsertTxs(transactions, block.number, list)
    /\ receipts' = InsertReceipts(receipts, SystemReceipts(block, list, x))
    /\ block_numbers' = MapPut(block_numbers, BlockHash(block), block.number)
    /\ blocks' = MapPut(blocks, block.number, block)
    /\ latest_block' = block
    /\ call_ret' = [op |-> "produce_block", ret |-> "ok", txs |-> list,
                    system_contracts |-> contracts, system_txs |-> x.system_txs,
                    txs_resp |-> x.resp.txs_resp, block |-> block,
                    receipts |-> SystemReceipts(block, list, x)]

\* produce_block with the result of exec
ProduceWith(p, list, contracts, x) ==
    /\ ws_data' = x.resp.ws
    /\ st_data' = x.resp.st
    /\ IF x.resp.ok
       THEN ProducePersist(p, list, contracts, x, NewBlock(mgmt[p], list, x.resp))
       ELSE /\ call_ret' = [op |-> "produce_block", ret |-> "panic"]
            /\ UNCHANGED <<txs, address_pending_cnter, storageVars>>

\* BlockMgmt::produce_block(txs, Some(contracts)), from the write lock of EXEC_LK
\* to its return
ProduceBlockCall(p, list, contracts) ==
    /\ pb_pc[p] = "idle"
    /\ mgmt[p].live
    /\ exec_lk.writer = 0 /\ exec_lk.readers = 0
    /\ ProduceWith(p, list, contracts,
                   ExecSystem(ws_data, st_data, mgmt[p].prev_state_root, list, contracts))
    /\ UNCHANGED <<tx_lifetime_fields, broadcast_queue, tx_indexer, now, ins_pc, ins_tx,
                   ins_idx, tx_age, clVars, query_cache, staking, exec_lk, mgmt, pb_pc, pb_txs,
                   pb_out, call_pc, reexec, restarts>>

-----------------------------------------------------------------------------
(* Backend::block_hash of the executor adapter *)

\* a block_hash that also refuses the block 256 below the current one
block_hash_short(current_number, number) ==
    IF number >= current_number THEN ZERO_HASH
    ELSE IF current_number - number >= GET_BLOCK_HASH_NUMBER_RANGE THEN ZERO_HASH
    ELSE IF get_block(number) = None THEN ZERO_HASH
    ELSE ProposalHash(ProposalFromHeader(get_block(number)))

\* RTEvmExecutorAdapter::block_hash(number), exec_ctx.block_number = current_number
block_hash(current_number, number) ==
    IF number >= current_number THEN ZERO_HASH
    ELSE IF current_number - number > GET_BLOCK_HASH_NUMBER_RANGE THEN ZERO_HASH
    ELSE IF get_block(number) = None THEN ZERO_HASH
    ELSE ProposalHash(ProposalFromHeader(get_block(number)))

\* the block numbers asked for, and the block numbers of the executor context:
\* around the stored blocks and around the range
HashNumbers == 0 .. MaxHeight + 1

CurrentNumbers ==
    (0 .. MaxHeight + 1)
    \cup (GET_BLOCK_HASH_NUMBER_RANGE - 1 .. GET_BLOCK_HASH_NUMBER_RANGE + MaxHeight + 2)

\* the BLOCKHASH opcode of a running contract
BlockHashCall(current_number, number) ==
    /\ call_ret' = [op |-> "block_hash", current_number |-> current_number,
                    number |-> number, ret |-> block_hash(current_number, number)]
    /\ UNCHANGED <<txs, tx_lifetime_fields, broadcast_queue, address_pending_cnter,
                   tx_indexer, now, ins_pc, ins_tx, ins_idx, tx_age, clVars, chainVars>>

-----------------------------------------------------------------------------
(* Transactions whose gas limit the sender cannot prepay *)

\* a call of a to c that transfers nothing, with a gas limit of eight times the
\* minimum: a holds 100000 at genesis, enough for tx_pre_check
\* (gas_price * 21000) and less than gas_price * gas_limit
HighLimitTx ==
    [Transfer("g1", "a", 0, "c", 0) EXCEPT !.gas_limit = 8 * MIN_TRANSACTION_GAS_LIMIT]

\* a contract creation by b that fails with all its gas used, the gas limit being
\* the highest that tx_pre_check admits
FailingCreate(h, n) ==
    [hash |-> h, sender |-> "b", nonce |-> n, gas_price |-> 1, gas_limit |-> tx_gas_cap,
     kind |-> "create", to |-> "c", value |-> 0, slot_val |-> 0]

GasLists ==
    ExecLists \cup {<<HighLimitTx>>} \cup {<<HighLimitTx, x>> : x \in ExecTxs}
              \cup {<<FailingCreate("k1", 0)>>,
                    <<FailingCreate("k1", 0), FailingCreate("k2", 1)>>}

-----------------------------------------------------------------------------
(* Transactions of one sender with consecutive nonces and different prices *)

\* the next transaction of a after h1 (nonce 0, gas price 1), paying a price of 2
HigherPricedNext == [Transfer("n1", "a", 1, "c", 1) EXCEPT !.gas_price = 2]

NonceTxs == ApiTxs \cup {HigherPricedNext}

(* Staking: stake_to, unstake_from, unstake_all *)

AMOUNT_MAX == 2^AmountBits - 1

Validators == {"v1", "v2"}
Stakers == {"s1", "s2"}

\* Option<Amount>: <<>> is None, <<n>> is Some(n)
checked_add(a, b) == IF a + b > AMOUNT_MAX THEN <<>> ELSE <<a + b>>
checked_sub(a, b) == IF a < b THEN <<>> ELSE <<a - b>>

RECURSIVE SumOver(_, _)
SumOver(f, S) ==
    IF S = {} THEN 0
    ELSE LET x == CHOOSE y \in S : TRUE IN f[x] + SumOver(f, S \ {x})

\* Validator::new(id, None)
NewValidator(id) ==
    [id |-> id, score |-> SCORE_MAX, staking_total |-> 0, storage |-> EmptyMap]

\* Validator::try_from(&ValidatorW): staking_total is the sum of the storage
ValidatorFromW(w) ==
    [id |-> w.id, score |-> w.score,
     staking_total |-> SumOver(w.storage, DOMAIN w.storage),
     storage |-> w.storage]

\* Staking::refresh_validators: a full replacement of the validator set
refresh_validators(validators) == [id \in DOMAIN validators |-> ValidatorFromW(validators[id])]

\* the validator stake_to works on: the stored one, or a new one
StakeTarget(state, validator) ==
    IF validator \in DOMAIN state THEN state[validator] ELSE NewValidator(validator)

\* Staking::stake_to(staker, validator, amount, static_validator_set): [ok, state]
stake_to(state, staker, validator, amount, static_validator_set) ==
    IF amount = 0 THEN [ok |-> TRUE, state |-> state]
    ELSE IF validator \notin DOMAIN state /\ static_validator_set
    THEN [ok |-> FALSE, state |-> state]
    ELSE IF checked_add(StakeTarget(state, validator).staking_total, amount) = <<>>
    THEN [ok |-> FALSE, state |-> state]
    ELSE IF checked_add(MapGet(StakeTarget(state, validator).storage, staker, 0), amount) = <<>>
    THEN [ok |-> FALSE, state |-> state]
    ELSE [ok |-> TRUE,
          state |-> MapPut(state, validator,
             [StakeTarget(state, validator) EXCEPT
                !.staking_total = @ + amount,
                !.storage = MapPut(@, staker, MapGet(@, staker, 0) + amount)])]

\* unstake_from once the amount is known to be positive and within the stake
UnstakeAmount(state, staker, validator, amount) ==
    IF checked_sub(state[validator].staking_total, amount) = <<>>
    THEN [ok |-> FALSE, amount |-> 0, state |-> state]
    ELSE [ok |-> TRUE, amount |-> amount,
          state |->
             IF state[validator].staking_total - amount = 0
             THEN MapDel(state, {validator})
             ELSE [state EXCEPT
                     ![validator].staking_total = @ - amount,
                     ![validator].storage =
                        IF @[staker] - amount = 0
                        THEN MapDel(@, {staker})
                        ELSE [@ EXCEPT ![staker] = @ - amount]]]

\* Staking::unstake_from(staker, validator, amount): [ok, amount, state]
unstake_from(state, staker, validator, amount) ==
    IF validator \notin DOMAIN state THEN [ok |-> FALSE, amount |-> 0, state |-> state]
    ELSE IF 0 > state[validator].score THEN [ok |-> FALSE, amount |-> 0, state |-> state]
    ELSE IF staker \notin DOMAIN state[validator].storage
    THEN [ok |-> FALSE, amount |-> 0, state |-> state]
    ELSE IF amount # <<>> /\ amount[1] > state[validator].storage[staker]
    THEN [ok |-> FALSE, amount |-> 0, state |-> state]
    ELSE IF amount # <<>> /\ amount[1] = 0 THEN [ok |-> TRUE, amount |-> 0, state |-> state]
    ELSE IF amount = <<>> /\ state[validator].storage[staker] = 0
    THEN [ok |-> TRUE, amount |-> 0, state |-> state]
    ELSE UnstakeAmount(state, staker, validator,
                       IF amount = <<>> THEN state[validator].storage[staker] ELSE amount[1])

\* unstake_all, first loop: the validators whose stake is counted, and its share
Counted(state) == {v \in DOMAIN state : 0 < state[v].score}
StakeOf(state, staker) == [v \in DOMAIN state |-> MapGet(state[v].storage, staker, 0)]

\* unstake_all, second loop: the staker leaves the storage of every validator
\* and a validator whose total is zero is removed
UnstakeAllTotals(state, staker) ==
    [v \in DOMAIN state |->
        IF v \in Counted(state)
        THEN state[v].staking_total - StakeOf(state, staker)[v]
        ELSE state[v].staking_total]

UnstakeAllState(state, staker) ==
    [v \in {x \in DOMAIN state : UnstakeAllTotals(state, staker)[x] # 0} |->
        [state[v] EXCEPT !.staking_total = UnstakeAllTotals(state, staker)[v],
                         !.storage = MapDel(@, {staker})]]

\* Staking::unstake_all(staker): [ok, amount, state]
unstake_all(state, staker) ==
    IF \E v \in Counted(state) : state[v].staking_total < StakeOf(state, staker)[v]
    THEN [ok |-> FALSE, amount |-> 0, state |-> state]
    ELSE IF SumOver(StakeOf(state, staker), Counted(state)) > AMOUNT_MAX
    THEN [ok |-> FALSE, amount |-> 0, state |-> state]
    ELSE [ok |-> TRUE, amount |-> SumOver(StakeOf(state, staker), Counted(state)),
          state |-> UnstakeAllState(state, staker)]

\* what a call of the staking module leaves alone
StakingFrame ==
    UNCHANGED <<txs, tx_lifetime_fields, broadcast_queue, address_pending_cnter,
                tx_indexer, now, ins_pc, ins_tx, ins_idx, tx_age, clVars,
                storageVars, ws_data, st_data, query_cache, mgmtVars>>

StakeToCall(staker, validator, amount, static_validator_set) ==
    /\ staking' = stake_to(staking, staker, validator, amount, static_validator_set).state
    /\ call_ret' = [op |-> "stake_to", staker |-> staker, validator |-> validator,
                    amount |-> amount,
                    ok |-> stake_to(staking, staker, validator, amount,
                                    static_validator_set).ok]
    /\ StakingFrame

UnstakeFromCall(staker, validator, amount) ==
    /\ staking' = unstake_from(staking, staker, validator, amount).state
    /\ call_ret' = [op |-> "unstake_from", staker |-> staker, validator |-> validator,
                    amount |-> unstake_from(staking, staker, validator, amount).amount,
                    ok |-> unstake_from(staking, staker, validator, amount).ok]
    /\ StakingFrame

UnstakeAllCall(staker) ==
    /\ staking' = unstake_all(staking, staker).state
    /\ call_ret' = [op |-> "unstake_all", staker |-> staker,
                    amount |-> unstake_all(staking, staker).amount,
                    ok |-> unstake_all(staking, staker).ok]
    /\ StakingFrame

RefreshValidatorsCall(validators) ==
    /\ staking' = refresh_validators(validators)
    /\ call_ret' = [op |-> "refresh_validators", validators |-> validators]
    /\ StakingFrame

\* the validator sets handed to refresh_validators: scores of every sign
Scores == {-1, 0, 1}
StakeMaps == {MapPut(EmptyMap, "s1", 1), MapPut(MapPut(EmptyMap, "s1", 1), "s2", 2)}
RefreshInputs ==
    UNION { { [id \in D |-> [id |-> id, score |-> f[id].score, storage |-> f[id].storage]] :
                f \in [D -> [score : Scores, storage : StakeMaps]] } :
            D \in SUBSET Validators }

(* CoSigOp::check_cosigs *)

\* u128::MAX, for a u64 of PriceBits bits
U128_MAX == 2^(2 * PriceBits) - 1

checked_mul(a, b) == IF a * b > U128_MAX THEN <<>> ELSE <<a * b>>

\* verification key bytes: kx is not the encoding of a curve point
Keys == {"k1", "k2", "kx"}
KeyDecodes(k) == k # "kx"

\* bcs::to_bytes(&data)
BcsBytes(data) == <<"bcs", data>>

\* sk.sign(&msg), and vk.verify(&sig, &msg) = Ok
Sign(k, msg) == [signer |-> k, msg |-> msg]
Verify(vk, sig, msg) == sig.signer = vk /\ sig.msg = msg

\* the sum of the committee's weights of the cosigners that are in the committee
ActualWeights(cosigs, committee) ==
    SumOver([k \in DOMAIN cosigs |-> MapGet(committee, cosigs[k].vk, 0)], DOMAIN cosigs)

\* check_existence
check_existence(op, cc) == \A k \in DOMAIN op.cosigs : k \in DOMAIN cc.committee

\* check_weight: "ok", "overflow" or "WeightInsufficient"
check_weight(op, cc) ==
    IF checked_mul(ActualWeights(op.cosigs, cc.committee), cc.rule.threshold[2]) = <<>>
    THEN "overflow"
    ELSE IF checked_mul(cc.rule.threshold[1], SumOver(cc.committee, DOMAIN cc.committee)) = <<>>
    THEN "overflow"
    ELSE IF ActualWeights(op.cosigs, cc.committee) * cc.rule.threshold[2]
              < cc.rule.threshold[1] * SumOver(cc.committee, DOMAIN cc.committee)
    THEN "WeightInsufficient"
    ELSE "ok"

\* the closure of the signature test: VerificationKey::try_from(cs.vk)
\* .map(|vk| vk.verify(&cs.sig, &msg).is_err()).is_err(); the verdict of verify
\* is the value inside Ok and is_err() looks at try_from only
SigRejected(cs, msg) ==
    IF KeyDecodes(cs.vk)
    THEN LET verdict == ~Verify(cs.vk, cs.sig, msg) IN FALSE
    ELSE TRUE

\* CoSigOp::check_cosigs(cc)
check_cosigs(op, cc) ==
    IF cc.committee = EmptyMap THEN "ok"
    ELSE IF ~check_existence(op, cc) THEN "KeyUnknown"
    ELSE IF check_weight(op, cc) # "ok" THEN check_weight(op, cc)
    ELSE IF \E k \in DOMAIN op.cosigs : SigRejected(op.cosigs[k], BcsBytes(op.data))
    THEN "SigInvalid"
    ELSE "ok"

\* the operations checked: data d1 with cosignatures made by sign() over d1 or
\* over other data, or made with another key
CoSigs ==
    UNION { [D -> {Sign(s, BcsBytes(d)) : s \in {"k1", "k2"}, d \in {"d1", "d2"}}] :
            D \in SUBSET Keys }
CoSigOps ==
    { [data |-> "d1", cosigs |-> [k \in DOMAIN f |-> [vk |-> k, sig |-> f[k]]]] : f \in CoSigs }

\* CoSigRule::new admits threshold[0] <= threshold[1]
CoSigRules == {[threshold |-> <<2, 3>>], [threshold |-> <<1, 1>>],
               [threshold |-> <<U64_MAX, U64_MAX>>]}
CoSigCheckers ==
    { [rule |-> r, committee |-> c] :
        r \in CoSigRules,
        c \in UNION { [D -> {1, 2, U64_MAX}] : D \in SUBSET Keys } }

\* check_cosigs changes nothing, so a behaviour holds one call of it
CheckCosigsCall(op, cc) ==
    /\ call_ret = None
    /\ call_ret' = [op |-> "check_cosigs", cosig_op |-> op, cc |-> cc,
                    ret |-> check_cosigs(op, cc)]
    /\ UNCHANGED <<txs, tx_lifetime_fields, broadcast_queue, address_pending_cnter,
                   tx_indexer, now, ins_pc, ins_tx, ins_idx, tx_age, clVars, chainVars>>

-----------------------------------------------------------------------------
(* BlockMgmt::verify_proposal *)

\* the chain id of every header of the model, and another one
LocalChainId == "local"

ChainIds == {"local", "foreign"}

\* a verify_proposal that does not compare the number of transactions with the
\* number of hashes
VerifyProposalNoLen(p, list) ==
    IF p.number < 1 THEN "number"
    ELSE IF LocalChainId # p.chain_id THEN "chain id"
    ELSE IF now < p.timestamp THEN "timestamp"
    ELSE IF get_block_header(p.number - 1) = None THEN "no previous header"
    ELSE IF p.prev_hash # BlockHash(get_block_header(p.number - 1)) THEN "prev hash"
    ELSE IF trie_root_indexed(p.tx_hashes) # p.transactions_root THEN "transactions root"
    ELSE IF \E i \in 1 .. Min(Len(list), Len(p.tx_hashes)) : list[i].hash # p.tx_hashes[i]
         THEN "Hash mismatch"
    ELSE IF \E i \in 1 .. Len(list) : ~tx_pre_check(list[i]) THEN "pre-check"
    ELSE "ok"

\* verify_proposal(p, txs): the first failing check, or "ok"
VerifyProposalErr(p, list) ==
    IF p.number < 1 THEN "number"
    ELSE IF LocalChainId # p.chain_id THEN "chain id"
    ELSE IF now < p.timestamp THEN "timestamp"
    ELSE IF get_block_header(p.number - 1) = None THEN "no previous header"
    ELSE IF p.prev_hash # BlockHash(get_block_header(p.number - 1)) THEN "prev hash"
    ELSE IF trie_root_indexed(p.tx_hashes) # p.transactions_root THEN "transactions root"
    ELSE IF Len(list) # Len(p.tx_hashes) THEN "length"
    ELSE IF \E i \in 1 .. Len(list) : list[i].hash # p.tx_hashes[i] THEN "Hash mismatch"
    ELSE IF \E i \in 1 .. Len(list) : ~tx_pre_check(list[i]) THEN "pre-check"
    ELSE "ok"

\* the transaction lists handed to verify_proposal, and the lists a proposal's
\* hashes are taken from: p0 has a gas price of zero
VerifyLists ==
    { <<>>,
      <<Transfer("h1", "a", 0, "c", 10)>>,
      <<Transfer("h2", "b", 0, "a", 5)>>,
      <<Transfer("h1", "a", 0, "c", 10), Transfer("h2", "b", 0, "a", 5)>>,
      <<PricedTx("p0", 0, MIN_TRANSACTION_GAS_LIMIT)>> }

\* the proposals handed to verify_proposal: the proposal m generates for a list,
\* with any of its fields replaced
VerifyProposals(m) ==
    { [prev_hash         |-> ph,
       transactions_root |-> root,
       timestamp         |-> ts,
       number            |-> n,
       chain_id          |-> c,
       tx_hashes         |-> HashesOf(l)] :
        ph \in {m.prev_block_hash, <<>>},
        root \in {trie_root_indexed(HashesOf(l2)) : l2 \in VerifyLists},
        ts \in {m.block_timestamp, now + 1},
        n \in {0, m.block_number, m.block_number + 1},
        c \in ChainIds,
        l \in VerifyLists }

\* verify_proposal changes nothing, so a behaviour holds one call of it
VerifyProposalCall(m, p, list) ==
    /\ mgmt[m].live
    /\ pb_pc[m] = "idle"
    /\ call_ret = None
    /\ call_ret' = [op |-> "verify_proposal", p |-> p, txs |-> list,
                    ret |-> VerifyProposalErr(p, list)]
    /\ UNCHANGED <<txs, tx_lifetime_fields, broadcast_queue, address_pending_cnter,
                   tx_indexer, now, ins_pc, ins_tx, ins_idx, tx_age, clVars, chainVars>>

-----------------------------------------------------------------------------
(* Query side (crates/api) *)

\* DefaultAPIAdapter::evm_call: opens the world state of a block and runs the call
EvmCallBegin ==
    /\ call_pc = "idle"
    /\ call_pc' = "running"
    /\ UNCHANGED <<mempoolVars, storageVars, trieVars, exec_lk, mgmt, pb_pc, pb_txs, pb_out,
                   reexec, restarts>>

EvmCallEnd ==
    /\ call_pc = "running"
    /\ call_pc' = "idle"
    /\ UNCHANGED <<mempoolVars, storageVars, trieVars, exec_lk, mgmt, pb_pc, pb_txs,
                   pb_out, reexec, restarts>>

\* DefaultAPIAdapter::get_account(address, number): a failed read is swallowed
\* (.ok().flatten()) and the default account is answered
ApiGetAccount(address, number) ==
    LET E == FromRoot(ws_data, st_data, blocks[number].state_root) IN
    AdapterGetAccount(E, address)

\* DefaultAPIAdapter::get_storage_at(address, position, state_root): [ok, value]
ApiGetStorageAt(address, position, state_root) ==
    IF ~NodeLive(ws_data, state_root, NullRoot) THEN [ok |-> FALSE]
    ELSE IF ~state_root[address].exists THEN [ok |-> FALSE]
    ELSE LET sr == state_root[address].storage_root IN
         IF address \notin DOMAIN st_data THEN [ok |-> FALSE]
         ELSE IF ~NodeLive(st_data[address], sr, EmptyStorageRoot) THEN [ok |-> FALSE]
         ELSE IF position \in DOMAIN sr THEN [ok |-> TRUE, value |-> sr[position]]
         ELSE [ok |-> FALSE]

-----------------------------------------------------------------------------
(* Web3RpcImpl::get_logs *)

\* from_receipt_to_web3_log: the logs of a receipt as web3 logs, those of the
\* filter's addresses only (every log when the filter names no address)
Web3LogsOf(receipt) ==
    [i \in 1 .. Len(receipt.logs) |->
        [address          |-> receipt.logs[i].address,
         block_number     |-> receipt.block_number,
         transaction_hash |-> receipt.tx_hash,
         log_index        |-> i - 1]]

from_receipt_to_web3_log(address, receipt) ==
    SelectSeq(Web3LogsOf(receipt), LAMBDA l : address = {} \/ l.address \in address)

\* extend_logs: the logs of each receipt are appended; once more than
\* MAX_LOG_NUM logs are held, early_return is set and the rest is skipped
RECURSIVE extend_logs(_, _, _)
extend_logs(acc, rs, address) ==
    IF rs = <<>> THEN acc
    ELSE IF Len(acc.logs \o from_receipt_to_web3_log(address, Head(rs))) > MAX_LOG_NUM
    THEN [logs |-> acc.logs \o from_receipt_to_web3_log(address, Head(rs)),
          early_return |-> TRUE]
    ELSE extend_logs(
            [acc EXCEPT !.logs = @ \o from_receipt_to_web3_log(address, Head(rs))],
            Tail(rs), address)

\* get_receipts_by_hashes(number, tx_hashes), flattened
get_receipts_by_hashes(tx_hashes) ==
    [i \in 1 .. Len(SelectSeq(tx_hashes, LAMBDA h : h \in DOMAIN receipts)) |->
        receipts[SelectSeq(tx_hashes, LAMBDA h : h \in DOMAIN receipts)[i]]]

\* the inner get_logs on one block
BlockLogs(acc, block, address) ==
    extend_logs(acc, get_receipts_by_hashes(block.tx_hashes), address)

\* get_logs, block-range form: the loop over start ..= end, which leaves out the
\* latest block; [logs, early_return] as the loop leaves them
RECURSIVE RangeLoop(_, _, _, _)
RangeLoop(acc, n, end, address) ==
    IF n > end \/ acc.early_return THEN acc
    ELSE IF n = get_latest_block.number THEN RangeLoop(acc, n + 1, end, address)
    ELSE RangeLoop(BlockLogs(acc, get_block(n), address), n + 1, end, address)

\* the latest block is looked at last, unless the loop returned early
RangeLogs(acc, start, end, address) ==
    IF ~acc.early_return /\ start <= end /\ end = get_latest_block.number
    THEN BlockLogs(acc, get_latest_block, address).logs
    ELSE acc.logs

\* BlockId to number: Num(n), Earliest, anything else is the latest block
ConvertBlockId(id) ==
    IF id.kind = "earliest" THEN 0
    ELSE IF id.kind = "num" THEN id.n
    ELSE get_latest_block.number

\* Option<BlockId>::map(convert).unwrap_or(latest_number)
ConvertOr(id) == IF id.kind = "none" THEN get_latest_block.number ELSE ConvertBlockId(id)

NoLogs == [logs |-> <<>>, early_return |-> FALSE]

\* Web3RpcImpl::get_logs(filter): [ok, logs]; filter.block_hash is <<>> or <<hash>>
get_logs(filter) ==
    IF filter.block_hash # <<>>
    THEN IF filter.block_hash[1] \in DOMAIN block_numbers
         THEN [ok |-> TRUE,
               logs |-> BlockLogs(NoLogs, blocks[block_numbers[filter.block_hash[1]]],
                                  filter.address).logs]
         ELSE [ok |-> FALSE]
    ELSE IF ConvertOr(filter.from_block) > get_latest_block.number
    THEN [ok |-> FALSE]
    ELSE [ok |-> TRUE,
          logs |-> RangeLogs(
                      RangeLoop(NoLogs, ConvertOr(filter.from_block),
                                Min(ConvertOr(filter.to_block), get_latest_block.number),
                                filter.address),
                      ConvertOr(filter.from_block),
                      Min(ConvertOr(filter.to_block), get_latest_block.number),
                      filter.address)]

\* the filters of a caller: a block hash (of a stored block or not), or a range
\* given by numbers, "earliest", "latest" or nothing; any address or address a
BlockIds ==
    {[kind |-> "num", n |-> k] : k \in 0 .. MaxHeight + 1}
    \cup {[kind |-> "earliest"], [kind |-> "latest"], [kind |-> "none"]}

LogFilters ==
    [block_hash : {<<h>> : h \in DOMAIN block_numbers \cup {<<"no block">>}},
     from_block : {[kind |-> "none"]}, to_block : {[kind |-> "none"]},
     address : {{}, {"a"}}]
    \cup
    [block_hash : {<<>>}, from_block : BlockIds, to_block : BlockIds,
     address : {{}, {"a"}}]

\* get_logs reads only, so a behaviour holds one call of it
GetLogsCall(filter) ==
    /\ call_ret = None
    /\ call_ret' = [op |-> "get_logs", filter |-> filter, ret |-> get_logs(filter)]
    /\ UNCHANGED <<txs, tx_lifetime_fields, broadcast_queue, address_pending_cnter,
                   tx_indexer, now, ins_pc, ins_tx, ins_idx, tx_age, clVars, chainVars>>

-----------------------------------------------------------------------------
(* Raw transactions: Hex, the RLP of a transaction, and send_raw_tx *)

\* A byte string is a sequence of 0 .. 255; a hex string, after its "0x", is a
\* sequence of digits 0 .. 15.

\* hex_encode: two digits for each byte
hex_encode(bytes) ==
    [i \in 1 .. 2 * Len(bytes) |->
        IF i % 2 = 1 THEN bytes[(i + 1) \div 2] \div 16 ELSE bytes[i \div 2] % 16]

\* hex_decode: one byte for each two digits; an odd number of digits is an error
hex_decode(digits) ==
    IF Len(digits) % 2 = 1 THEN [ok |-> FALSE]
    ELSE [ok |-> TRUE,
          bytes |-> [i \in 1 .. Len(digits) \div 2 |->
                        16 * digits[2 * i - 1] + digits[2 * i]]]

\* the bytes of an address: H160, twenty bytes
AddrCode(a) == IF a = "a" THEN 10 ELSE IF a = "b" THEN 11 ELSE 12

H160Bytes(a) == [i \in 1 .. 20 |-> AddrCode(a)]

H160Of(data) ==
    IF \E a \in Addr : data = H160Bytes(a)
    THEN CHOOSE a \in Addr : data = H160Bytes(a)
    ELSE "other"

\* an unsigned integer as big-endian bytes without leading zeros, and back
RECURSIVE UIntBytes(_)
UIntBytes(n) == IF n = 0 THEN <<>> ELSE UIntBytes(n \div 256) \o <<n % 256>>

RECURSIVE BigEndian(_)
BigEndian(d) ==
    IF d = <<>> THEN 0 ELSE 256 * BigEndian(SubSeq(d, 1, Len(d) - 1)) + d[Len(d)]

\* RlpStream::append of a byte string, RlpStream::begin_list of a payload
\* (both shorter than 56 bytes)
RlpStr(data) ==
    IF Len(data) = 1 /\ data[1] < 128 THEN data ELSE <<128 + Len(data)>> \o data

RlpList(payload) == <<192 + Len(payload)>> \o payload

\* Rlp: n bytes of payload after the header byte of b
RlpTaken(b, n, list) ==
    IF Len(b) < 1 + n THEN [ok |-> FALSE]
    ELSE [ok |-> TRUE, list |-> list, indirect |-> ~list /\ n = 1 /\ b[2] < 128,
          data |-> SubSeq(b, 2, 1 + n), rest |-> SubSeq(b, 2 + n, Len(b))]

\* Rlp: the item at the head of b, for the headers with a length below 56
RlpHead(b) ==
    IF b = <<>> THEN [ok |-> FALSE]
    ELSE IF b[1] < 128
    THEN [ok |-> TRUE, list |-> FALSE, indirect |-> FALSE, data |-> <<b[1]>>,
          rest |-> Tail(b)]
    ELSE IF b[1] < 184 THEN RlpTaken(b, b[1] - 128, FALSE)
    ELSE IF b[1] >= 192 /\ b[1] < 248 THEN RlpTaken(b, b[1] - 192, TRUE)
    ELSE [ok |-> FALSE]

\* Rlp::iter: the items of a payload, up to the first one that does not parse
RECURSIVE RlpItems(_)
RlpItems(payload) ==
    IF ~RlpHead(payload).ok THEN <<>>
    ELSE <<RlpHead(payload)>> \o RlpItems(RlpHead(payload).rest)

\* Rlp::item_count: an error unless b is a list
item_count(b) ==
    IF b = <<>> \/ b[1] < 192 THEN [ok |-> FALSE]
    ELSE [ok |-> TRUE,
          items |-> IF RlpHead(b).ok THEN RlpItems(RlpHead(b).data) ELSE <<>>]

\* val_at for an unsigned integer of the given width in bytes
UIntOk(it, width) ==
    /\ ~it.list
    /\ ~it.indirect
    /\ Len(it.data) <= width
    /\ it.data # <<>> => it.data[1] # 0

\* val_at for TransactionAction: the empty string creates, an H160 is called
ActionOk(it) == ~it.list /\ Len(it.data) \in {0, 20}

\* val_at for Bytes
BytesOk(it) == ~it.list /\ ~it.indirect

\* the access list: a list of [address, [storage key ...]] pairs
AccessItemOk(it) ==
    /\ it.list
    /\ Len(RlpItems(it.data)) = 2
    /\ ~RlpItems(it.data)[1].list /\ Len(RlpItems(it.data)[1].data) = 20
    /\ RlpItems(it.data)[2].list
    /\ \A k \in 1 .. Len(RlpItems(RlpItems(it.data)[2].data)) :
          /\ ~RlpItems(RlpItems(it.data)[2].data)[k].list
          /\ Len(RlpItems(RlpItems(it.data)[2].data)[k].data) = 32

AccessListOk(it) ==
    it.list /\ \A i \in 1 .. Len(RlpItems(it.data)) : AccessItemOk(RlpItems(it.data)[i])

\* SignatureComponents::extract_standard_v of a legacy v
extract_standard_v(v) ==
    IF v \in {27, 28} THEN [ok |-> TRUE, v |-> v - 27]
    ELSE IF v >= 35 THEN [ok |-> TRUE, v |-> (v - 1) % 2]
    ELSE [ok |-> FALSE]

\* SignatureComponents::rlp_decode: v, then r and s as U256 when v <= 1 and as
\* byte strings of length 32 otherwise
SigOk(v, r, s) ==
    IF v <= 1 THEN UIntOk(r, 32) /\ UIntOk(s, 32)
    ELSE BytesOk(r) /\ BytesOk(s) /\ Len(r.data) = 32 /\ Len(s.data) = 32

\* the transaction held by items, its nonce at index k and, from index g on, gas
\* price, gas limit, action, value and data
TxOfItems(hash, items, k, g, sig) ==
    [hash      |-> hash,
     nonce     |-> BigEndian(items[k].data),
     gas_price |-> BigEndian(items[g].data),
     gas_limit |-> BigEndian(items[g + 1].data),
     kind      |-> IF items[g + 2].data = <<>> THEN "create" ELSE "call",
     to        |-> IF items[g + 2].data = <<>> THEN "none" ELSE H160Of(items[g + 2].data),
     value     |-> BigEndian(items[g + 3].data),
     slot_val  |-> 0,
     signature |-> [v |-> sig, r |-> BigEndian(items[Len(items) - 1].data),
                    s |-> BigEndian(items[Len(items)].data)]]

FieldsOk(items, k, g) ==
    /\ UIntOk(items[k], 32)
    /\ UIntOk(items[g], 32)
    /\ UIntOk(items[g + 1], 32)
    /\ ActionOk(items[g + 2])
    /\ UIntOk(items[g + 3], 32)
    /\ BytesOk(items[g + 4])

\* LegacyTransaction::rlp_decode of the items of raw
LegacyOfItems(raw, items) ==
    IF Len(items) # 9 THEN [ok |-> FALSE, err |-> "RlpIncorrectListLen"]
    ELSE IF ~(FieldsOk(items, 1, 2) /\ UIntOk(items[7], 8)) THEN [ok |-> FALSE, err |-> "Rlp"]
    ELSE IF ~extract_standard_v(BigEndian(items[7].data)).ok
    THEN [ok |-> FALSE, err |-> "invalid legacy v in signature"]
    ELSE IF ~SigOk(extract_standard_v(BigEndian(items[7].data)).v, items[8], items[9])
    THEN [ok |-> FALSE, err |-> "Rlp"]
    ELSE [ok |-> TRUE,
          utx |-> TxOfItems(raw, items, 1, 2,
                            extract_standard_v(BigEndian(items[7].data)).v)]

LegacyDecode(raw) ==
    IF ~item_count(raw).ok THEN [ok |-> FALSE, err |-> "RlpExpectedToBeList"]
    ELSE LegacyOfItems(raw, item_count(raw).items)

\* Eip2930Transaction::rlp_decode (more = 0) and Eip1559Transaction::rlp_decode
\* (more = 1, the max priority fee before the gas price) of the items of rest
TypedOfItems(raw, items, more) ==
    IF Len(items) # 11 + more THEN [ok |-> FALSE, err |-> "RlpIncorrectListLen"]
    ELSE IF ~(/\ UIntOk(items[1], 8)
              /\ FieldsOk(items, 2, 3 + more)
              /\ UIntOk(items[3], 32)
              /\ UIntOk(items[9 + more], 1))
    THEN [ok |-> FALSE, err |-> "Rlp"]
    ELSE IF ~AccessListOk(items[8 + more])
    THEN [ok |-> FALSE, err |-> "Unknown access list length"]
    ELSE IF ~SigOk(BigEndian(items[9 + more].data), items[10 + more], items[11 + more])
    THEN [ok |-> FALSE, err |-> "Rlp"]
    ELSE [ok |-> TRUE,
          utx |-> TxOfItems(raw, items, 2, 3 + more, BigEndian(items[9 + more].data))]

TypedDecode(raw, more) ==
    IF ~item_count(Tail(raw)).ok THEN [ok |-> FALSE, err |-> "RlpExpectedToBeList"]
    ELSE TypedOfItems(raw, item_count(Tail(raw)).items, more)

\* impl Decodable for UnverifiedTransaction: `let header = raw[0]` is an index
\* out of bounds on the empty byte string, and the thread panics
UnverifiedDecode(raw) ==
    IF raw = <<>> THEN [ok |-> FALSE, panic |-> TRUE]
    ELSE IF raw[1] >= 128 THEN [panic |-> FALSE] @@ LegacyDecode(raw)
    ELSE IF raw[1] = 1 THEN [panic |-> FALSE] @@ TypedDecode(raw, 0)
    ELSE IF raw[1] = 2 THEN [panic |-> FALSE] @@ TypedDecode(raw, 1)
    ELSE [ok |-> FALSE, panic |-> FALSE, err |-> "Invalid transaction header"]

\* the three encodings: 0 legacy, 1 EIP-2930, 2 EIP-1559
TxTypes == {0, 1, 2}

\* the payload common to the encodings: gas price, gas limit, action, value, data
CommonPayload(tx) ==
    RlpStr(UIntBytes(tx.gas_price)) \o RlpStr(UIntBytes(tx.gas_limit))
    \o RlpStr(IF tx.kind = "create" THEN <<>> ELSE H160Bytes(tx.to))
    \o RlpStr(UIntBytes(tx.value)) \o RlpStr(<<>>)

SigPayload(sig) == RlpStr(UIntBytes(sig.r)) \o RlpStr(UIntBytes(sig.s))

\* UnverifiedTransaction::rlp_bytes, on chain 0 and with an empty access list
rlp_bytes(tx, ty) ==
    IF ty = 0
    THEN RlpList(RlpStr(UIntBytes(tx.nonce)) \o CommonPayload(tx)
                 \o RlpStr(UIntBytes(tx.signature.v + 35)) \o SigPayload(tx.signature))
    ELSE <<ty>> \o
         RlpList(RlpStr(<<>>) \o RlpStr(UIntBytes(tx.nonce))
                 \o (IF ty = 2 THEN RlpStr(UIntBytes(tx.gas_price)) ELSE <<>>)
                 \o CommonPayload(tx) \o RlpList(<<>>)
                 \o RlpStr(UIntBytes(tx.signature.v)) \o SigPayload(tx.signature))

\* the sender a signature recovers to: r stands for the signer's key and s = 1
\* for a signature of this transaction by it
Recover(utx) ==
    IF utx.signature.s = 1 /\ \E a \in Addr : AddrCode(a) = utx.signature.r
    THEN [ok |-> TRUE,
          stx |-> [hash |-> utx.hash, sender |-> CHOOSE a \in Addr : AddrCode(a) = utx.signature.r,
                   nonce |-> utx.nonce, gas_price |-> utx.gas_price,
                   gas_limit |-> utx.gas_limit, kind |-> utx.kind, to |-> utx.to,
                   value |-> utx.value, slot_val |-> utx.slot_val]]
    ELSE [ok |-> FALSE]

\* a transaction with its signature, as a client builds it
RawTx(price, kind, r, s) ==
    [nonce |-> 0, gas_price |-> price, gas_limit |-> MIN_TRANSACTION_GAS_LIMIT,
     kind |-> kind, to |-> "c", value |-> 10, signature |-> [v |-> 0, r |-> r, s |-> s]]

\* the transactions a client signs: a call and a creation by a, a call without
\* a gas price, and a call whose signature is invalid
RawTxs ==
    {RawTx(1, "call", AddrCode("a"), 1), RawTx(1, "create", AddrCode("a"), 1),
     RawTx(0, "call", AddrCode("a"), 1), RawTx(1, "call", AddrCode("a"), 2)}

\* the bytes a client submits: every short byte string over RawBytes, the
\* encodings of RawTxs, and those with the last byte cut off or set to zero
RawBytes == {0, 1, 128, 201}

ShortRaws == {<<>>} \cup {<<x>> : x \in RawBytes} \cup {<<x, y>> : x \in RawBytes, y \in RawBytes}

EncodedRaws == {rlp_bytes(tx, ty) : tx \in RawTxs, ty \in TxTypes}

RawInputs ==
    ShortRaws \cup EncodedRaws
    \cup {SubSeq(e, 1, Len(e) - 1) : e \in EncodedRaws}
    \cup {SubSeq(e, 1, Len(e) - 1) \o <<0>> : e \in EncodedRaws}

\* the hex strings a client submits: those of RawInputs and one of odd length
HexInputs == {hex_encode(b) : b \in RawInputs} \cup {<<0>>}

\* send_raw_tx after the decoding: try_from, then insert_signed_tx
SendDecoded(tx, d) ==
    IF d.panic
    THEN /\ call_ret' = [op |-> "send_raw_tx", tx |-> tx, decoded |-> FALSE, ret |-> "panic"]
         /\ UNCHANGED <<txs, tx_lifetime_fields, broadcast_queue, address_pending_cnter,
                        tx_indexer, now, ins_pc, ins_tx, ins_idx, tx_age, clVars, chainVars>>
    ELSE IF ~d.ok
    THEN /\ call_ret' = [op |-> "send_raw_tx", tx |-> tx, decoded |-> FALSE, ret |-> d.err]
         /\ UNCHANGED <<txs, tx_lifetime_fields, broadcast_queue, address_pending_cnter,
                        tx_indexer, now, ins_pc, ins_tx, ins_idx, tx_age, clVars, chainVars>>
    ELSE IF ~Recover(d.utx).ok
    THEN /\ call_ret' = [op |-> "send_raw_tx", tx |-> tx, decoded |-> TRUE,
                         ret |-> "recover signature"]
         /\ UNCHANGED <<txs, tx_lifetime_fields, broadcast_queue, address_pending_cnter,
                        tx_indexer, now, ins_pc, ins_tx, ins_idx, tx_age, clVars, chainVars>>
    ELSE /\ TxInsertErr(Recover(d.utx).stx) = "ok" => tx_indexer > IndexStart - MaxInserts
         /\ call_ret' = [op |-> "send_raw_tx", tx |-> tx, decoded |-> TRUE,
                         ret |-> TxInsertErr(Recover(d.utx).stx)]
         /\ TxInsertMaps(Recover(d.utx).stx, TxInsertErr(Recover(d.utx).stx))

\* Web3RpcImpl::send_raw_tx(tx: Hex): a hex string that does not deserialize
\* never reaches the handler
SendRawTx(tx) ==
    /\ \A t \in Inserters : ins_pc[t] = "idle"
    /\ IF ~hex_decode(tx).ok
       THEN /\ call_ret' = [op |-> "send_raw_tx", tx |-> tx, decoded |-> FALSE,
                            ret |-> "Invalid params"]
            /\ UNCHANGED <<txs, tx_lifetime_fields, broadcast_queue, address_pending_cnter,
                           tx_indexer, now, ins_pc, ins_tx, ins_idx, tx_age, clVars,
                           chainVars>>
       ELSE SendDecoded(tx, UnverifiedDecode(hex_decode(tx).bytes))

-----------------------------------------------------------------------------
(* The trie store and the executor adapter called directly, by the thread that
   drives the block producer, on the latest world state *)

\* the direct callers act on the chain tip, once the producer has returned
CallerIdle ==
    /\ \A p \in Producers : pb_pc[p] = "idle"
    /\ get_latest_block.number = CallHeight

\* the Apply::Modify values a caller hands to apply (code = None, storage = [],
\* reset_storage = false)
ApplyInputs ==
    [address : Addr, balance : {0, 5}, nonce : {0, 1}, storage : {EmptyMap}]

\* from_root(latest state root), ApplyBackend::apply(values, logs = [],
\* delete_empty) and commit; a panic drops the handle
ApplyOn(root, value, delete_empty) ==
    AdapterCommit(SetLogs(ApplyValues(FromRoot(ws_data, st_data, root), <<value>>,
                                      delete_empty), <<>>))

ApplyCall(value, delete_empty) ==
    /\ CallerIdle
    /\ ws_data' = ApplyOn(get_latest_block.state_root, value, delete_empty).ws
    /\ st_data' = ApplyOn(get_latest_block.state_root, value, delete_empty).st
    /\ call_ret' = [op |-> "apply", value |-> value, delete_empty |-> delete_empty,
                    pre |-> get_latest_block.state_root,
                    ok |-> ApplyOn(get_latest_block.state_root, value, delete_empty).ok,
                    root |-> ApplyOn(get_latest_block.state_root, value, delete_empty).cur]
    /\ UNCHANGED <<txs, tx_lifetime_fields, broadcast_queue, address_pending_cnter,
                   tx_indexer, now, ins_pc, ins_tx, ins_idx, tx_age, clVars,
                   storageVars, query_cache, staking, mgmtVars>>

\* MptStore::trie_create(key, None); the handle is dropped unused
TrieCreateCall(key) ==
    /\ CallerIdle
    /\ st_data' = TrieCreate(st_data, key).st
    /\ call_ret' = [op |-> "trie_create", key |-> key, ok |-> TrieCreate(st_data, key).ok]
    /\ UNCHANGED <<txs, tx_lifetime_fields, broadcast_queue, address_pending_cnter,
                   tx_indexer, now, ins_pc, ins_tx, ins_idx, tx_age, clVars,
                   storageVars, ws_data, query_cache, staking, mgmtVars>>

\* MptStore::trie_restore(key, root); the handle is dropped unused
TrieRestoreCall(key) ==
    /\ CallerIdle
    /\ st_data' = TrieRestore(st_data, key).st
    /\ call_ret' = [op |-> "trie_restore", key |-> key, ok |-> TrieRestore(st_data, key).ok]
    /\ UNCHANGED <<txs, tx_lifetime_fields, broadcast_queue, address_pending_cnter,
                   tx_indexer, now, ins_pc, ins_tx, ins_idx, tx_age, clVars,
                   storageVars, ws_data, query_cache, staking, mgmtVars>>

\* get_account_by_backend(trie_db, storage, address, None): the account under the
\* state root of the latest header; get_with_cache answers a failed read of the
\* trie from QUERY_CACHE when the (root, key) pair was read before, and
\* get_account_by_state turns an absent key into the default account
GetAccount(address) ==
    IF WsReadable(get_latest_block.state_root)
       \/ <<get_latest_block.state_root, address>> \in query_cache
    THEN [ok |-> TRUE,
          account |-> IF get_latest_block.state_root[address].exists
                      THEN get_latest_block.state_root[address]
                      ELSE DefaultAccount]
    ELSE [ok |-> FALSE, account |-> None]

\* EvmRuntime::get_account(address); a read that succeeds fills QUERY_CACHE
GetAccountCall(address) ==
    /\ CallerIdle
    /\ query_cache' =
          IF WsReadable(get_latest_block.state_root)
          THEN query_cache \cup {<<get_latest_block.state_root, address>>}
          ELSE query_cache
    /\ call_ret' = [op |-> "get_account", address |-> address,
                    ok |-> GetAccount(address).ok,
                    account |-> GetAccount(address).account]
    /\ UNCHANGED <<txs, tx_lifetime_fields, broadcast_queue, address_pending_cnter,
                   tx_indexer, now, ins_pc, ins_tx, ins_idx, tx_age, clVars,
                   storageVars, ws_data, st_data, staking, mgmtVars>>

\* the accounts a caller saves: the account as it reads at the tip (the default
\* account for an address without one) with another balance
SaveInputs == [address : Addr, balance : {0, 5}]

SavedAccount(root, in) ==
    [(IF root[in.address].exists THEN root[in.address] ELSE DefaultAccount)
        EXCEPT !.balance = in.balance]

\* save_account_by_backend(trie_db, storage, address, account): trie_restore at
\* the latest state root, state.insert, and the handle goes out of scope with no
\* commit() call; dropping the TrieDBMut inside it writes its pending changes to
\* the backend
SaveAccountCall(in) ==
    /\ CallerIdle
    /\ ws_data' =
          IF WsReadable(get_latest_block.state_root)
          THEN TrieCommit(ws_data, get_latest_block.state_root,
                          [get_latest_block.state_root EXCEPT ![in.address] =
                              SavedAccount(get_latest_block.state_root, in)],
                          NullRoot)
          ELSE ws_data
    /\ call_ret' = [op |-> "save_account", address |-> in.address,
                    account |-> SavedAccount(get_latest_block.state_root, in),
                    read_before |-> [x \in Addr |-> GetAccount(x)],
                    ok |-> WsReadable(get_latest_block.state_root)]
    /\ UNCHANGED <<txs, tx_lifetime_fields, broadcast_queue, address_pending_cnter,
                   tx_indexer, now, ins_pc, ins_tx, ins_idx, tx_age, clVars,
                   storageVars, st_data, query_cache, staking, mgmtVars>>

-----------------------------------------------------------------------------
(* Re-execution of a committed block, and process restart *)

\* the transactions of block n, fetched by hash as get_fatblock does
BlockTxs(n) == [i \in 1 .. Len(blocks[n].tx_hashes) |-> transactions[blocks[n].tx_hashes[i]].tx]

\* exec run again on a committed block's transactions against its parent's root
ReExec(n) ==
    /\ n \in DOMAIN blocks /\ n - 1 \in DOMAIN blocks
    /\ \A i \in 1 .. Len(blocks[n].tx_hashes) : blocks[n].tx_hashes[i] \in DOMAIN transactions
    /\ blocks[n].tx_hashes # <<>>
    /\ exec_lk.writer = 0 /\ exec_lk.readers = 0
    /\ \A p \in Producers : pb_pc[p] = "idle"
    /\ reexec = None
    /\ LET r == Exec(ws_data, st_data, blocks[n - 1].state_root, BlockTxs(n)) IN
       /\ ws_data' = r.ws
       /\ st_data' = r.st
       /\ reexec' = [number |-> n, parent_root |-> blocks[n - 1].state_root,
                     first_root |-> blocks[n].state_root,
                     ok |-> r.ok, state_root |-> r.state_root]
    /\ UNCHANGED <<mempoolVars, storageVars, query_cache, staking, exec_lk, mgmt, pb_pc, pb_txs,
                   pb_out, call_pc, restarts>>

\* the process dies and EvmRuntime::restore builds a new runtime over the same
\* database: caches, mempool, lock and handles are new, db and tries are kept
Restart ==
    /\ restarts < MaxRestarts
    /\ restarts' = restarts + 1
    /\ txs' = EmptyMap
    /\ tx_lifetime_fields' = EmptyMap
    /\ broadcast_queue' = <<>>
    /\ address_pending_cnter' = [a \in Addr |-> EmptyMap]
    /\ latest_block' = None
    /\ exec_lk' = [writer |-> 0, readers |-> 0]
    /\ mgmt' = [p \in Producers |-> NoMgmt]
    /\ pb_pc' = [p \in Producers |-> "idle"]
    /\ pb_txs' = [p \in Producers |-> <<>>]
    /\ pb_out' = [p \in Producers |-> None]
    /\ call_pc' = "idle"
    /\ query_cache' = {}
    /\ UNCHANGED <<tx_indexer, now, insVars, tx_age, clVars, blocks, block_numbers,
                   transactions, receipts, ws_data, st_data, staking, reexec>>

-----------------------------------------------------------------------------
(* Initial state: EvmRuntime::create has run, the mempool is empty *)

Init ==
    /\ txs = EmptyMap
    /\ tx_lifetime_fields = EmptyMap
    /\ broadcast_queue = <<>>
    /\ address_pending_cnter = [a \in Addr |-> EmptyMap]
    /\ tx_indexer = IndexStart
    /\ now = StartTime
    /\ ins_pc = [t \in Inserters |-> "idle"]
    /\ ins_tx = [t \in Inserters |-> None]
    /\ ins_idx = [t \in Inserters |-> 0]
    /\ call_ret = None
    /\ tx_age = EmptyMap
    /\ cl_pc = "sleep"
    /\ cl_guard = 0
    /\ cl_del = {}
    /\ cl_next = now + Lifetime
    /\ lk = NoLocks
    /\ mp_call = NoCall
    /\ blocks = MapPut(EmptyMap, 0, GenesisBlock)
    /\ block_numbers = MapPut(EmptyMap, BlockHash(GenesisBlock), 0)
    /\ latest_block = GenesisBlock
    /\ transactions = EmptyMap
    /\ receipts = EmptyMap
    /\ ws_data = MapPut(EmptyMap, GenesisRoot, 1)
    /\ st_data = MapPut(MapPut(EmptyMap, "a", EmptyMap), "b", EmptyMap)
    /\ query_cache = {}
    /\ staking = EmptyMap
    /\ exec_lk = [writer |-> 0, readers |-> 0]
    /\ mgmt = [p \in Producers |-> NoMgmt]
    /\ pb_pc = [p \in Producers |-> "idle"]
    /\ pb_txs = [p \in Producers |-> <<>>]
    /\ pb_out = [p \in Producers |-> None]
    /\ call_pc = "idle"
    /\ reexec = None
    /\ restarts = 0

(* EvmRuntime::create on a configured token distribution *)

\* the state before create: empty stores
InitBlank ==
    /\ txs = EmptyMap
    /\ tx_lifetime_fields = EmptyMap
    /\ broadcast_queue = <<>>
    /\ address_pending_cnter = [a \in Addr |-> EmptyMap]
    /\ tx_indexer = IndexStart
    /\ now = StartTime
    /\ ins_pc = [t \in Inserters |-> "idle"]
    /\ ins_tx = [t \in Inserters |-> None]
    /\ ins_idx = [t \in Inserters |-> 0]
    /\ call_ret = None
    /\ tx_age = EmptyMap
    /\ cl_pc = "sleep"
    /\ cl_guard = 0
    /\ cl_del = {}
    /\ cl_next = now + Lifetime
    /\ lk = NoLocks
    /\ mp_call = NoCall
    /\ blocks = EmptyMap
    /\ block_numbers = EmptyMap
    /\ latest_block = None
    /\ transactions = EmptyMap
    /\ receipts = EmptyMap
    /\ ws_data = EmptyMap
    /\ st_data = EmptyMap
    /\ query_cache = {}
    /\ staking = EmptyMap
    /\ exec_lk = [writer |-> 0, readers |-> 0]
    /\ mgmt = [p \in Producers |-> NoMgmt]
    /\ pb_pc = [p \in Producers |-> "idle"]
    /\ pb_txs = [p \in Producers |-> <<>>]
    /\ pb_out = [p \in Producers |-> None]
    /\ call_pc = "idle"
    /\ reexec = None
    /\ restarts = 0

\* the token distributions handed to create: up to MaxDist entries
Distributions ==
    UNION {[1 .. n -> [address : Addr, amount : 1 .. MaxAmount]] : n \in 0 .. MaxDist}

\* create: the fold of the distribution list into one entry per address
MergeEntry(acc, td) ==
    IF td.address \notin DOMAIN acc THEN MapPut(acc, td.address, td.amount)
    ELSE IF td.amount # acc[td.address]
         THEN MapPut(acc, td.address, acc[td.address] + td.amount)
    ELSE acc

RECURSIVE MergeDistributions(_, _)
MergeDistributions(acc, list) ==
    IF list = <<>> THEN acc
    ELSE MergeDistributions(MergeEntry(acc, Head(list)), Tail(list))

\* create: apply(td.address, td.basic(), None, vec![], true) for every merged
\* entry, on the empty world state
GenesisRootOf(merged) ==
    [x \in Addr |-> IF x \in DOMAIN merged
                    THEN Acct(0, merged[x], EmptyStorageRoot, NIL_HASH)
                    ELSE NoAcc]

GenesisStOf(merged) == [x \in DOMAIN merged |-> EmptyMap]

\* create: Block::mock(chain_id, 0, exector_adapter.commit(), 0)
GenesisBlockOf(root) == [GenesisBlock EXCEPT !.state_root = root]

\* EvmRuntime::create(chain_id, token_distributions)
Create(token_distributions) ==
    /\ blocks = EmptyMap
    /\ ws_data' = TrieCommit(EmptyMap, NullRoot,
                             GenesisRootOf(MergeDistributions(EmptyMap, token_distributions)),
                             NullRoot)
    /\ st_data' = GenesisStOf(MergeDistributions(EmptyMap, token_distributions))
    /\ latest_block' =
          GenesisBlockOf(GenesisRootOf(MergeDistributions(EmptyMap, token_distributions)))
    /\ blocks' = MapPut(EmptyMap, 0, latest_block')
    /\ block_numbers' = MapPut(EmptyMap, BlockHash(latest_block'), 0)
    /\ call_ret' = [op |-> "create", token_distributions |-> token_distributions]
    /\ UNCHANGED <<txs, tx_lifetime_fields, broadcast_queue, address_pending_cnter,
                   tx_indexer, now, ins_pc, ins_tx, ins_idx, tx_age, clVars,
                   transactions, receipts, query_cache, staking, mgmtVars>>

NextGenesis == \E token_distributions \in Distributions : Create(token_distributions)

SpecGenesis == InitBlank /\ [][NextGenesis]_vars

(* A chain whose receipts hold logs, and get_logs on it *)

\* the numbers of logs of one receipt
LogCounts == {0, 1, MAX_LOG_NUM}

\* the receipts of one block: one or two, each with its number of logs
LogShapes == {<<x>> : x \in LogCounts} \cup {<<x, y>> : x \in LogCounts, y \in LogCounts}

\* the transactions of block n: the first one a call of a, the second one of b
LogTxs(n, shape) == [i \in 1 .. Len(shape) |-> [hash |-> <<n, i>>]]

\* the execution response of block n: tx i succeeds and its contract, a for the
\* first tx and b for the second, logs shape[i] times
LogResp(shape) ==
    [state_root |-> GenesisRoot,
     txs_resp |-> [i \in 1 .. Len(shape) |->
                     [exit |-> "succeed", gas_used |-> MIN_TRANSACTION_GAS_LIMIT,
                      logs |-> [j \in 1 .. shape[i] |->
                                  [address |-> IF i = 1 THEN "a" ELSE "b", data |-> j]],
                      code_address |-> None]]]

\* block n of the chain with the given shapes, as produce_block builds it
RECURSIVE LogBlock(_, _)
LogBlock(chain, n) ==
    IF n = 0 THEN GenesisBlock
    ELSE BlockNew([prev_hash         |-> BlockHash(LogBlock(chain, n - 1)),
                   transactions_root |-> trie_root_indexed(HashesOf(LogTxs(n, chain[n]))),
                   timestamp         |-> 0,
                   number            |-> n,
                   tx_hashes         |-> HashesOf(LogTxs(n, chain[n]))],
                  LogResp(chain[n]))

RECURSIVE LogReceipts(_, _)
LogReceipts(chain, n) ==
    IF n = 0 THEN EmptyMap
    ELSE InsertReceipts(LogReceipts(chain, n - 1),
                        generate_receipts(LogBlock(chain, n), LogTxs(n, chain[n]),
                                          LogResp(chain[n])))

\* the state after MaxHeight blocks with the given shapes have been produced
InitLogs ==
    \E chain \in [1 .. MaxHeight -> LogShapes] :
        /\ txs = EmptyMap
        /\ tx_lifetime_fields = EmptyMap
        /\ broadcast_queue = <<>>
        /\ address_pending_cnter = [a \in Addr |-> EmptyMap]
        /\ tx_indexer = IndexStart
        /\ now = StartTime
        /\ ins_pc = [t \in Inserters |-> "idle"]
        /\ ins_tx = [t \in Inserters |-> None]
        /\ ins_idx = [t \in Inserters |-> 0]
        /\ call_ret = None
        /\ tx_age = EmptyMap
        /\ cl_pc = "sleep"
        /\ cl_guard = 0
        /\ cl_del = {}
        /\ cl_next = now + Lifetime
        /\ lk = NoLocks
        /\ mp_call = NoCall
        /\ blocks = [n \in 0 .. MaxHeight |-> LogBlock(chain, n)]
        /\ block_numbers = [h \in {BlockHash(LogBlock(chain, n)) : n \in 0 .. MaxHeight} |->
                              CHOOSE n \in 0 .. MaxHeight : BlockHash(LogBlock(chain, n)) = h]
        /\ latest_block = LogBlock(chain, MaxHeight)
        /\ transactions = EmptyMap
        /\ receipts = LogReceipts(chain, MaxHeight)
        /\ ws_data = MapPut(EmptyMap, GenesisRoot, 1)
        /\ st_data = MapPut(MapPut(EmptyMap, "a", EmptyMap), "b", EmptyMap)
        /\ query_cache = {}
        /\ staking = EmptyMap
        /\ exec_lk = [writer |-> 0, readers |-> 0]
        /\ mgmt = [p \in Producers |-> NoMgmt]
        /\ pb_pc = [p \in Producers |-> "idle"]
        /\ pb_txs = [p \in Producers |-> <<>>]
        /\ pb_out = [p \in Producers |-> None]
        /\ call_pc = "idle"
        /\ reexec = None
        /\ restarts = 0

\* the mempool with its locks: one caller of tx_insert, one caller of the other
\* calls, the cleaner thread and the clock
NextLocks ==
    \/ \E t \in LockInserters, tx \in LockPool : LkInsCall(t, tx)
    \/ \E t \in LockInserters : LkInsStep(t)
    \/ \E c \in MempoolCalls : LkCall(c)
    \/ LkCallLock
    \/ LkCallBody
    \/ LkCleanerWake
    \/ LkCleanerSplit
    \/ LkCleanerLock
    \/ LkCleanerDel
    \/ LkCleanerCnt
    \/ LkTick

\* every thread keeps running, time passes, and the locks of parking_lot are
\* eventually fair: a thread that waits for a lock that is free again and again
\* gets it
SpecLocks ==
    /\ Init
    /\ [][NextLocks]_vars
    /\ \A t \in LockInserters : SF_vars(LkInsStep(t))
    /\ SF_vars(LkCallLock)
    /\ WF_vars(LkCallBody)
    /\ WF_vars(LkCleanerWake)
    /\ WF_vars(LkCleanerSplit)
    /\ SF_vars(LkCleanerLock)
    /\ WF_vars(LkCleanerDel)
    /\ WF_vars(LkCleanerCnt)
    /\ WF_vars(LkTick)

NextRaw == \E tx \in HexInputs : SendRawTx(tx)

SpecRaw == Init /\ [][NextRaw]_vars

NextLogs == \E filter \in LogFilters : GetLogsCall(filter)

SpecLogs == InitLogs /\ [][NextLogs]_vars

(* The mempool under concurrent callers and its cleaner thread *)

NextMempool ==
    \/ \E t \in Inserters, tx \in InsertPool : InsCheckFull(t, tx)
    \/ \E t \in Inserters : InsCheckCached(t)
    \/ \E t \in Inserters : InsPreCheck(t)
    \/ \E t \in Inserters : InsBroadcast(t)
    \/ \E t \in Inserters : InsIndex(t)
    \/ \E t \in Inserters : InsCount(t)
    \/ \E t \in Inserters : InsLifetime(t)
    \/ \E t \in Inserters : InsTxs(t)
    \/ \E to_del \in (SUBSET InsertPool) \ {{}} : TxCleanupCall(to_del)
    \/ TxTakeBroadcast
    \/ CleanerWake
    \/ CleanerDel
    \/ CleanerCnt
    \/ Tick

SpecMempool == Init /\ [][NextMempool]_vars

(* Block production by several BlockMgmt instances, and re-execution *)

NextChain ==
    \/ \E tx \in TxUniverse : TxInsert(tx)
    \/ \E p \in Producers : BlockMgmtNew(p)
    \/ \E p \in Producers : PbTake(p)
    \/ \E p \in Producers : PbLock(p)
    \/ \E p \in Producers : PbGenerate(p)
    \/ \E p \in Producers : PbInsertTxs(p)
    \/ \E p \in Producers : PbInsertReceipts(p)
    \/ \E p \in Producers : PbSetBlock(p)
    \/ \E n \in 1 .. MaxHeight : ReExec(n)

SpecChain == Init /\ [][NextChain]_vars

(* One block producer beside the query side, with process restarts *)

TheProducer == CHOOSE p \in Producers : \A q \in Producers : p <= q

NextNode ==
    \/ \E tx \in TxUniverse : TxInsert(tx)
    \/ BlockMgmtNew(TheProducer)
    \/ PbTake(TheProducer)
    \/ PbLock(TheProducer)
    \/ PbGenerate(TheProducer)
    \/ PbInsertTxs(TheProducer)
    \/ PbInsertReceipts(TheProducer)
    \/ PbSetBlock(TheProducer)
    \/ EvmCallBegin
    \/ EvmCallEnd
    \/ Restart

SpecNode == Init /\ [][NextNode]_vars

\* the cleaner thread next to one inserting thread, with no end of time
NextCleaner ==
    \/ \E tx \in InsertPool : TxInsert(tx)
    \/ CleanerWake
    \/ CleanerDel
    \/ CleanerCnt
    \/ TickCyclic

\* time passes, and the cleaner is a thread of its own that loops forever
SpecCleaner ==
    /\ Init
    /\ [][NextCleaner]_vars
    /\ WF_vars(TickCyclic)
    /\ WF_vars(CleanerWake)
    /\ WF_vars(CleanerDel)
    /\ WF_vars(CleanerCnt)

\* one block producer whose caller hands it any list of transactions
NextExec ==
    \/ get_latest_block.number < CallHeight /\ BlockMgmtNew(TheProducer)
    \/ \E list \in ExecLists : PbGiven(TheProducer, list)
    \/ PbLock(TheProducer)
    \/ PbGenerate(TheProducer)
    \/ PbInsertTxs(TheProducer)
    \/ PbInsertReceipts(TheProducer)
    \/ PbSetBlock(TheProducer)

SpecExec == Init /\ [][NextExec]_vars

\* one BlockMgmt per height, given transaction lists and system contracts
NextSystem ==
    \/ get_latest_block.number < CallHeight /\ BlockMgmtNew(TheProducer)
    \/ \E list \in ExecLists, contracts \in SystemContractLists :
          ProduceBlockCall(TheProducer, list, contracts)

SpecSystem == Init /\ [][NextSystem]_vars

\* cosigned operations checked against committees
NextCoSig ==
    /\ call_ret = None
    /\ \E op \in CoSigOps, cc \in CoSigCheckers : CheckCosigsCall(op, cc)

SpecCoSig == Init /\ [][NextCoSig]_vars

\* the staking module called directly
NextStaking ==
    \/ \E staker \in Stakers, validator \in Validators, amount \in 0 .. MaxAmount,
          static_validator_set \in BOOLEAN :
          StakeToCall(staker, validator, amount, static_validator_set)
    \/ \E staker \in Stakers, validator \in Validators,
          amount \in {<<>>} \cup {<<n>> : n \in 0 .. MaxAmount} :
          UnstakeFromCall(staker, validator, amount)
    \/ \E staker \in Stakers : UnstakeAllCall(staker)
    \/ \E validators \in RefreshInputs : RefreshValidatorsCall(validators)

SpecStaking == Init /\ [][NextStaking]_vars

\* the lists of the blocks produced and of the proposals verified against them
TipLists == {<<>>, <<Transfer("h1", "a", 0, "c", 10)>>, <<Transfer("h2", "b", 0, "a", 5)>>}

\* proposals of a peer for the height of m or for the height after the latest
\* block, on top of the block m was built on, of the latest block or of none
TipProposals(m) ==
    { [prev_hash         |-> ph,
       transactions_root |-> trie_root_indexed(HashesOf(l)),
       timestamp         |-> m.block_timestamp,
       number            |-> n,
       chain_id          |-> LocalChainId,
       tx_hashes         |-> HashesOf(l)] :
        ph \in {m.prev_block_hash, BlockHash(get_latest_block), <<>>},
        n \in {m.block_number, get_latest_block.number + 1},
        l \in TipLists }

\* blocks are produced one by one and proposals are verified against the chain
NextTip ==
    \/ BlockMgmtNew(TheProducer)
    \/ \E list \in TipLists : PbGiven(TheProducer, list)
    \/ PbLock(TheProducer)
    \/ PbGenerate(TheProducer)
    \/ PbInsertTxs(TheProducer)
    \/ PbInsertReceipts(TheProducer)
    \/ PbSetBlock(TheProducer)
    \/ /\ mgmt[TheProducer].live
       /\ \E p \in TipProposals(mgmt[TheProducer]), list \in TipLists :
             VerifyProposalCall(TheProducer, p, list)

SpecTip == Init /\ [][NextTip]_vars

\* sequential tx_insert and tx_take_propose calls on one mempool
NextPropose ==
    \/ \E tx \in NonceTxs : TxInsertCall(tx)
    \/ \E limit \in 1 .. TakeLimit : TakeProposeCall(limit)

SpecPropose == Init /\ [][NextPropose]_vars

\* produce_block with lists that hold a transaction of a high gas limit
NextGas ==
    \/ get_latest_block.number < CallHeight /\ BlockMgmtNew(TheProducer)
    \/ \E list \in GasLists : ProduceBlockCall(TheProducer, list, <<>>)

SpecGas == Init /\ [][NextGas]_vars

\* a chain grows block by block while block hashes are asked for
NextBlockHash ==
    \/ BlockMgmtNew(TheProducer)
    \/ \E list \in {<<>>} \cup {<<tx>> : tx \in InsertPool} :
          ProduceBlockCall(TheProducer, list, <<>>)
    \/ \E c \in CurrentNumbers, n \in HashNumbers : BlockHashCall(c, n)

SpecBlockHash == Init /\ [][NextBlockHash]_vars

\* tx_insert on the edges of the gas ranges, by one caller, at the genesis state
NextPreCheck ==
    \/ \E tx \in BoundaryTxs : TxInsertCall(tx)
    \/ \E to_del \in (SUBSET InsideEdgeTxs) \ {{}} : TxCleanupCall(to_del)

SpecPreCheck == Init /\ [][NextPreCheck]_vars

\* the lists the producer of SpecStore is handed: none, a sender that has no
\* account, and a transfer to an address that has none
StoreLists == {<<>>, <<PoorTx>>, <<Transfer("h1", "a", 0, "c", 10)>>}

\* one block producer, and direct calls of the trie store and the adapter
NextStore ==
    \/ get_latest_block.number < CallHeight /\ BlockMgmtNew(TheProducer)
    \/ \E list \in StoreLists : PbGiven(TheProducer, list)
    \/ PbLock(TheProducer)
    \/ PbGenerate(TheProducer)
    \/ PbInsertTxs(TheProducer)
    \/ PbInsertReceipts(TheProducer)
    \/ PbSetBlock(TheProducer)
    \/ \E value \in ApplyInputs, delete_empty \in BOOLEAN : ApplyCall(value, delete_empty)
    \/ \E key \in Addr : TrieCreateCall(key)
    \/ \E key \in Addr : TrieRestoreCall(key)
    \/ \E in \in SaveInputs : SaveAccountCall(in)

SpecStore == Init /\ [][NextStore]_vars

\* one block producer, and the accounts of the tip saved and read
NextAccount ==
    \/ get_latest_block.number < CallHeight /\ BlockMgmtNew(TheProducer)
    \/ \E list \in StoreLists : PbGiven(TheProducer, list)
    \/ PbLock(TheProducer)
    \/ PbGenerate(TheProducer)
    \/ PbInsertTxs(TheProducer)
    \/ PbInsertReceipts(TheProducer)
    \/ PbSetBlock(TheProducer)
    \/ \E in \in SaveInputs : SaveAccountCall(in)
    \/ \E address \in Addr : GetAccountCall(address)

SpecAccount == Init /\ [][NextAccount]_vars

\* a BlockMgmt on the genesis block whose caller verifies proposals
NextVerify ==
    \/ get_latest_block.number < CallHeight /\ BlockMgmtNew(TheProducer)
    \/ /\ mgmt[TheProducer].live
       /\ \E p \in VerifyProposals(mgmt[TheProducer]), list \in VerifyLists :
             VerifyProposalCall(TheProducer, p, list)

SpecVerify == Init /\ [][NextVerify]_vars

\* the mempool calls of one thread, with their results, next to one block producer
NextApi ==
    \/ \E tx \in ApiTxs : TxInsertCall(tx)
    \/ \E limit \in 1 .. TakeLimit : TakeProposeCall(limit)
    \/ get_latest_block.number < CallHeight /\ BlockMgmtNew(TheProducer)
    \/ PbTake(TheProducer)
    \/ PbLock(TheProducer)
    \/ PbGenerate(TheProducer)
    \/ PbInsertTxs(TheProducer)
    \/ PbInsertReceipts(TheProducer)
    \/ PbSetBlock(TheProducer)

SpecApi == Init /\ [][NextApi]_vars

-----------------------------------------------------------------------------
(* Claims about the chain *)

ProducersIdle == \A p \in Producers : pb_pc[p] = "idle"

BlocksHolding(h) == {n \in DOMAIN blocks : h \in SeqToSet(blocks[n].tx_hashes)}

\* C1: once produce_block has returned, every persisted transaction hash is
\* answered by get_tx_by_hash and is contained in exactly one persisted block,
\* the block whose number is recorded with the transaction.
C1_TxInExactlyOneBlock ==
    ProducersIdle =>
        \A h \in DOMAIN transactions :
            /\ get_tx_by_hash(h) # None
            /\ BlocksHolding(h) = {transactions[h].number}

\* C2: a block persisted at number N is never replaced or altered by a later
\* step, and the latest block never moves back to a lower number.
C2_BlocksImmutable ==
    [][ /\ \A n \in DOMAIN blocks :
              /\ get_block(n)' = get_block(n)
              /\ get_block_header(n)' = get_block(n)
        /\ get_latest_block'.number >= get_latest_block.number ]_vars

\* C3: the persisted blocks form one linear chain: every block at N > 0 has a
\* block at N - 1 whose hash is its prev_hash, and at most one produce_block
\* call is past the write lock at any time.
C3_LinearChain ==
    /\ \A n \in DOMAIN blocks :
          n > 0 => /\ n - 1 \in DOMAIN blocks
                   /\ blocks[n].prev_hash = BlockHash(blocks[n - 1])
    /\ Cardinality({p \in Producers : pb_pc[p] # "idle"}) <= 1

\* C4: executing the transactions of a committed block again on the state root
\* of its parent completes and yields the state root the first run produced.
C4_ReExecSameRoot ==
    reexec # None => reexec.ok /\ reexec.state_root = reexec.first_root

\* C5: the transactions, the receipts and the block of a produce_block call are
\* persisted all or nothing: in no state, for no reader, is a transaction or a
\* receipt stored whose block is not stored with it.
C5_AllOrNothing ==
    \A tx \in TxUniverse :
        /\ get_tx_by_hash(tx.hash) # None =>
              /\ transactions[tx.hash].number \in BlocksHolding(tx.hash)
              /\ get_receipt_by_hash(tx.hash) # None
        /\ get_receipt_by_hash(tx.hash) # None =>
              /\ get_receipt_by_hash(tx.hash).block_number \in BlocksHolding(tx.hash)
              /\ get_tx_by_hash(tx.hash) # None

\* C6: a running evm_call holds EXEC_LK in shared mode, so it never overlaps
\* the critical section of produce_block.
C6_CallHoldsSharedLock ==
    call_pc = "running" =>
        /\ exec_lk.readers > 0
        /\ \A p \in Producers : pb_pc[p] = "idle"

AccountAt(root, a) == IF root[a].exists THEN root[a] ELSE DefaultAccount

\* C7: the world state of every persisted block stays readable: get_account at
\* a block's number answers the account as of that block, and every storage
\* slot set as of that block is answered by get_storage_at with its value.
C7_HistoryReadable ==
    \A n \in DOMAIN blocks : \A a \in Addr :
        LET root == blocks[n].state_root IN
        /\ ApiGetAccount(a, n) = AccountAt(root, a)
        /\ root[a].exists =>
              \A k \in DOMAIN root[a].storage_root :
                 k >= 0 =>
                    LET r == ApiGetStorageAt(a, k, root) IN
                    r.ok /\ r.value = root[a].storage_root[k]

-----------------------------------------------------------------------------
(* Claims about the mempool *)

MempoolQuiescent == (\A t \in Inserters : ins_pc[t] = "idle") /\ cl_pc = "sleep"

TxsOfSender(a) == {i \in DOMAIN txs : txs[i].sender = a}

\* C8: tx_insert succeeds only while the number of pending transactions is
\* strictly below the capacity, so the tx map never holds more than `capacity`
\* transactions.
C8_CapacityRespected == Cardinality(DOMAIN txs) <= Capacity

\* C9: the tx map never holds two entries for the same transaction (same sender
\* and hash), also when several threads submit it concurrently.
C9_NoDuplicateEntries ==
    \A i, j \in DOMAIN txs :
        (txs[i].sender = txs[j].sender /\ txs[i].hash = txs[j].hash) => i = j

\* C10: whenever no mempool operation is mid-flight, the pending count of each
\* sender equals the number of entries of the tx map with that sender.
C10_PendingCountMatches ==
    MempoolQuiescent =>
        \A a \in Addr : tx_pending_cnt(a) = Cardinality(TxsOfSender(a))

-----------------------------------------------------------------------------
(* Claims about admission and the executed nonce *)

\* C11: between calls, the mempool holds no tx whose nonce is lower than its
\* sender's account nonce in the latest committed state
C11_NoStaleNonce ==
    ProducersIdle =>
        \A i \in DOMAIN txs :
            ~(txs[i].nonce < AccountAt(get_latest_block.state_root, txs[i].sender).nonce)

\* C12: tx_insert never admits a tx whose nonce is not the nonce the sender's
\* account expects: every tx that enters the tx map carries exactly the account
\* nonce of the latest state
C12_OnlyExpectedNonceAdmitted ==
    [][\A i \in (DOMAIN txs') \ (DOMAIN txs) :
          txs'[i].nonce = AccountAt(get_latest_block.state_root, txs'[i].sender).nonce]_vars

\* what the last tx_insert of the sequential caller returned ("none": no such call)
LastInsertRet ==
    IF call_ret # None /\ call_ret.op = "tx_insert" THEN call_ret.ret ELSE "none"

\* C13: a tx_insert that returns an error (full, already cached, or a failed
\* pre-check) leaves the tx map, the per-sender map, the lifetime map and the
\* broadcast queue exactly as they were
C13_ErrorLeavesMempool ==
    [][(call_ret' # call_ret /\ call_ret'.op = "tx_insert" /\ call_ret'.ret # "ok") =>
          UNCHANGED <<txs, address_pending_cnter, tx_lifetime_fields,
                      broadcast_queue>>]_vars

\* a pre-check of tx_insert failed while the mempool held a transaction
C13_Witness == LastInsertRet = "Invalid nonce" /\ txs # EmptyMap

\* the checks of tx_insert other than the gas price and gas limit ranges pass
OtherChecksPass(tx) ==
    /\ ~MempoolFull
    /\ ~AlreadyCached(tx)
    /\ MempoolGetAccount(tx.sender).ok
    /\ ~(MempoolGetAccount(tx.sender).acc.nonce > tx.nonce)
    /\ ~(MempoolGetAccount(tx.sender).acc.balance < tx.gas_price * MIN_TRANSACTION_GAS_LIMIT)
    /\ get_tx_by_hash(tx.hash) = None

\* C14: with all other checks passing, a tx is accepted exactly when its gas
\* price g satisfies 0 < g < 2^PriceBits (2^64 in the program), so up to the
\* largest price 2^PriceBits - 1, and its gas limit l satisfies
\* 21000 <= l <= gas cap
C14_GasRangesAccepted ==
    [][(/\ call_ret' # call_ret
        /\ call_ret'.op = "tx_insert"
        /\ OtherChecksPass(call_ret'.tx)) =>
          (call_ret'.ret = "ok" <=>
              /\ 0 < call_ret'.tx.gas_price
              /\ call_ret'.tx.gas_price < U64_MAX + 1
              /\ MIN_TRANSACTION_GAS_LIMIT <= call_ret'.tx.gas_limit
              /\ call_ret'.tx.gas_limit <= tx_gas_cap)]_vars

\* the place of a pending tx in the order of the successful tx_insert calls (the
\* broadcast queue keeps that order while nobody takes from it)
InsertOrder(tx) == CHOOSE k \in 1 .. Len(broadcast_queue) : broadcast_queue[k] = tx

PendingTxs == {txs[i] : i \in DOMAIN txs}

\* a tx_take_propose has just returned
TookPropose == call_ret' # call_ret /\ call_ret'.op = "tx_take_propose"

C16_CleanupFrame ==
    [][\A included \in SUBSET InsertPool :
          TxCleanupCall(included) =>
              /\ \A tx \in included :
                    /\ tx \notin {txs'[i] : i \in DOMAIN txs'}
                    /\ tx.hash \notin DOMAIN address_pending_cnter'[tx.sender]
              /\ \A i \in DOMAIN txs :
                    txs[i] \notin included => i \in DOMAIN txs' /\ txs'[i] = txs[i]
              /\ \A a \in Addr : \A h \in DOMAIN address_pending_cnter[a] :
                    h \notin {tx.hash : tx \in included} =>
                        /\ h \in DOMAIN address_pending_cnter'[a]
                        /\ address_pending_cnter'[a][h] = address_pending_cnter[a][h]]_vars

\* C17: a cleaner pass removes a tx only when its lifetime has expired: no tx
\* inserted less than one lifetime minus the slack before the pass is removed
C17_OnlyExpiredRemoved ==
    [][(cl_pc = "del" /\ cl_pc' = "cnt") =>
          \A i \in (DOMAIN txs) \ (DOMAIN txs') : tx_age[i] >= Lifetime - Slack]_vars

\* C18: every tx that stays in the mempool is eventually removed by the cleaner,
\* also when no further tx is inserted
C18_EventuallyRemoved ==
    \A tx \in InsertPool : (tx \in PendingTxs) ~> (tx \notin PendingTxs)

-----------------------------------------------------------------------------
(* Claims about the executor, on the produce_block steps of SpecExec *)

\* generate_block of the producer has just executed its list without a panic
Generated ==
    pb_pc[TheProducer] = "generate" /\ pb_pc'[TheProducer] = "insert_txs"

\* the list being executed, and the state root after its first k transactions
GenList == pb_txs[TheProducer]

GenRoot(k) ==
    Exec(ws_data, st_data, mgmt[TheProducer].prev_state_root,
         SubSeq(GenList, 1, k)).state_root

\* the sender of the k-th transaction before and after that transaction
SenderBefore(k) == AccountAt(GenRoot(k - 1), GenList[k].sender)

SenderAfter(k) == AccountAt(GenRoot(k), GenList[k].sender)

\* the world state after an invalid-nonce transaction: the sender pays the minimal
\* fee and its nonce goes up by one, everything else is as before
InvalidNoncePost(pre, tx, acc) ==
    [pre EXCEPT ![tx.sender] =
        Acct(acc.nonce + 1,
             SatSub(acc.balance, tx.gas_price * MIN_TRANSACTION_GAS_LIMIT),
             acc.storage_root, acc.code_hash)]

TxsFrom(s) == SelectSeq(GenList, LAMBDA tx : tx.sender = s)

\* s sends consecutive nonces starting at its account nonce
Consecutive(s) ==
    /\ TxsFrom(s) # <<>>
    /\ \A j \in 1 .. Len(TxsFrom(s)) :
          TxsFrom(s)[j].nonce = AccountAt(GenRoot(0), s).nonce + j - 1

\* C20: every tx processed by exec raises its sender's nonce by exactly one,
\* whether it succeeds, fails in the EVM or has an invalid nonce; a sender whose
\* txs carry consecutive nonces starting at its account nonce ends with its nonce
\* raised by their number, and none of them gets "invalid nonce"
C20_NonceUpByOne ==
    [][Generated =>
          /\ GenRoot(Len(GenList)) = pb_out'[TheProducer].block.state_root
          /\ \A k \in 1 .. Len(GenList) :
                SenderAfter(k).nonce = SenderBefore(k).nonce + 1
          /\ \A s \in Addr :
                Consecutive(s) =>
                    /\ AccountAt(GenRoot(Len(GenList)), s).nonce =
                          AccountAt(GenRoot(0), s).nonce + Len(TxsFrom(s))
                    /\ \A k \in 1 .. Len(GenList) :
                          GenList[k].sender = s =>
                              pb_out'[TheProducer].receipts[k].ret # "invalid nonce"]_vars

\* two txs of one sender with consecutive nonces have been executed
C20_Witness ==
    /\ pb_pc[TheProducer] = "insert_txs"
    /\ Len(pb_txs[TheProducer]) = 2
    /\ pb_txs[TheProducer][1].sender = pb_txs[TheProducer][2].sender
    /\ pb_txs[TheProducer][2].nonce = pb_txs[TheProducer][1].nonce + 1
    /\ pb_out[TheProducer].receipts[1].ret = "succeed"
    /\ pb_out[TheProducer].receipts[2].ret = "succeed"

\* the storage backends after the first k transactions of the list
GenSt(k) ==
    Exec(ws_data, st_data, mgmt[TheProducer].prev_state_root,
         SubSeq(GenList, 1, k)).st

\* the k-th transaction ran in the EVM and did not succeed
EvmFailed(k) ==
    pb_out'[TheProducer].receipts[k].ret \notin {"succeed", "invalid nonce"}

-----------------------------------------------------------------------------
(* Claims about the adapter and the trie store, on the calls of SpecStore *)

\* a direct call of `op` has just returned
Returned(op) == call_ret' # call_ret /\ call_ret'.op = op

\* C22: when ApplyBackend::apply is called with delete_empty = true and a Modify
\* leaves the account empty (balance 0, nonce 0, code hash equal to the nil hash),
\* the account does not exist in the world state afterwards
C22_EmptyAccountRemoved ==
    [][(/\ Returned("apply")
        /\ call_ret'.ok
        /\ call_ret'.delete_empty
        /\ call_ret'.value.balance = 0
        /\ call_ret'.value.nonce = 0
        /\ AccountAt(call_ret'.pre, call_ret'.value.address).code_hash = NIL_HASH)
       => ~call_ret'.root[call_ret'.value.address].exists]_vars

\* C23: for every address A, existing or not, and every basic (balance, nonce),
\* after apply(A, basic, code = none, storage = [], reset_storage = false) the
\* account read back for A has that balance and nonce, the code hash it had
\* before and an unchanged storage root
C23_ApplyBasicReadsBack ==
    [][(/\ Returned("apply")
        /\ ~call_ret'.delete_empty
        /\ call_ret'.value.storage = EmptyMap)
       => /\ call_ret'.ok
          /\ AccountAt(call_ret'.root, call_ret'.value.address).balance =
                call_ret'.value.balance
          /\ AccountAt(call_ret'.root, call_ret'.value.address).nonce =
                call_ret'.value.nonce
          /\ AccountAt(call_ret'.root, call_ret'.value.address).code_hash =
                AccountAt(call_ret'.pre, call_ret'.value.address).code_hash
          /\ AccountAt(call_ret'.root, call_ret'.value.address).storage_root =
                AccountAt(call_ret'.pre, call_ret'.value.address).storage_root]_vars

-----------------------------------------------------------------------------
(* Claims about genesis creation, on SpecGenesis *)

\* the sum of the amounts listed for address x
RECURSIVE ListedSum(_, _)
ListedSum(list, x) ==
    IF list = <<>> THEN 0
    ELSE (IF Head(list).address = x THEN Head(list).amount ELSE 0)
         + ListedSum(Tail(list), x)

Listed(list, x) == \E i \in 1 .. Len(list) : list[i].address = x

\* C24: after genesis creation from a token-distribution list, in which an
\* address may appear any number of times with equal or different amounts, the
\* balance of each listed address is the sum of the amounts listed for it and its
\* nonce is 0
C24_GenesisBalancesSummed ==
    (call_ret # None /\ call_ret.op = "create") =>
        \A x \in Addr :
            Listed(call_ret.token_distributions, x) =>
                /\ get_latest_block.state_root[x].exists
                /\ get_latest_block.state_root[x].nonce = 0
                /\ get_latest_block.state_root[x].balance =
                      ListedSum(call_ret.token_distributions, x)

\* C25: trie_create(key) returns an error and leaves the key-to-backend map as it
\* is when key already maps to a backend, and otherwise registers exactly that
\* key; trie_restore(key, root) returns an error, without changing the map, when
\* key is unknown
C25_CreateRestoreContracts ==
    [][/\ Returned("trie_create") =>
            IF call_ret'.key \in DOMAIN st_data
            THEN ~call_ret'.ok /\ st_data' = st_data
            ELSE /\ call_ret'.ok
                 /\ DOMAIN st_data' = DOMAIN st_data \cup {call_ret'.key}
                 /\ \A k \in DOMAIN st_data : st_data'[k] = st_data[k]
       /\ (Returned("trie_restore") /\ call_ret'.key \notin DOMAIN st_data) =>
            ~call_ret'.ok /\ st_data' = st_data]_vars

\* trie_create has been refused for a key that maps to a backend
C25_Witness ==
    /\ call_ret # None
    /\ call_ret.op = "trie_create"
    /\ ~call_ret.ok
    /\ call_ret.key \in DOMAIN st_data

\* the nodes a backend answers for
VisibleNodes(data) == {n \in DOMAIN data : data[n] > 0}

\* C26: mutations made through a trie handle that is dropped without a commit
\* are discarded: after the drop the backend holds the same visible nodes as
\* before the handle was opened, and every committed root that could be read
\* before can still be read
C26_DropDiscards ==
    [][(Returned("save_account") /\ call_ret'.ok) =>
          /\ VisibleNodes(ws_data') = VisibleNodes(ws_data)
          /\ \A n \in DOMAIN blocks :
                NodeLive(ws_data, blocks[n].state_root, NullRoot) =>
                    NodeLive(ws_data', blocks[n].state_root, NullRoot)]_vars

-----------------------------------------------------------------------------
(* Claims about proposals and blocks *)

\* C30: the hash of a proposal is the hash of the block built from it: for the
\* proposal P of any transaction list, empty or not, and the execution response
\* R, Block::new(P, R).hash() equals P.hash()
C30_BlockHashIsProposalHash ==
    [][Generated =>
          BlockHash(pb_out'[TheProducer].block) =
              ProposalHash(generate_proposal(mgmt[TheProducer], GenList))]_vars
\* the proposal and the list of the last verify_proposal call
VP == call_ret'.p

VTxs == call_ret'.txs

\* C27: verify_proposal(p, txs) returns an error whenever p.number < 1, or
\* p.chain_id is not the manager's chain id, or p.timestamp is later than the
\* current time, or the stored header at p.number - 1 is missing or its hash is
\* not p.prev_hash, or p.transactions_root is not the root recomputed from
\* p.tx_hashes, or txs and p.tx_hashes differ in length or in the hash at some
\* position, or some tx fails the mempool pre-check; it returns Ok only when
\* none of these holds
C27_VerifyProposalRejects ==
    [][Returned("verify_proposal") =>
          (call_ret'.ret # "ok" <=>
              \/ VP.number < 1
              \/ VP.chain_id # LocalChainId
              \/ VP.timestamp > now
              \/ get_block_header(VP.number - 1) = None
              \/ BlockHash(get_block_header(VP.number - 1)) # VP.prev_hash
              \/ VP.transactions_root # trie_root_indexed(VP.tx_hashes)
              \/ Len(VTxs) # Len(VP.tx_hashes)
              \/ \E i \in 1 .. Len(VTxs) : VTxs[i].hash # VP.tx_hashes[i]
              \/ \E i \in 1 .. Len(VTxs) : ~tx_pre_check(VTxs[i]))]_vars

\* a proposal with two transactions has been accepted
C27_Witness ==
    /\ call_ret # None
    /\ call_ret.op = "verify_proposal"
    /\ call_ret.ret = "ok"
    /\ Len(call_ret.txs) = 2

-----------------------------------------------------------------------------
(* Claims about the JSON-RPC side *)

\* C28: for every filter, in block-hash form or block-range form, and every
\* chain contents, get_logs returns at most MAX_LOG_NUM logs
C28_LogsCapped ==
    (call_ret # None /\ call_ret.op = "get_logs" /\ call_ret.ret.ok) =>
        Len(call_ret.ret.logs) <= MAX_LOG_NUM

\* C29: decoding any byte string as a raw transaction, the empty one of
\* eth_sendRawTransaction("0x") included, gives a transaction or a decode error:
\* send_raw_tx never panics, and a call whose bytes do not decode leaves the
\* mempool and the storage as they were
C29_DecodeNeverPanics ==
    [][Returned("send_raw_tx") =>
          /\ call_ret'.ret # "panic"
          /\ ~call_ret'.decoded =>
                UNCHANGED <<txs, tx_lifetime_fields, broadcast_queue,
                            address_pending_cnter, tx_indexer, storageVars, trieVars>>]_vars

-----------------------------------------------------------------------------
(* Claims about the receipts of a block *)

\* the transactions whose results exec pushed to txs_resp, in that order
ExecutedOrder(r) == HashesOf(r.system_txs) \o HashesOf(r.txs)

\* C32: for every block produce_block produces, with or without system
\* contracts, the receipts are in transaction order: receipt i has tx_index i,
\* carries the hash and the execution result of one and the same transaction,
\* that transaction is persisted in the block, and log_index is the number of
\* logs of the receipts before it
C32_ReceiptsInTxOrder ==
    [][Returned("produce_block") /\ call_ret'.ret = "ok" =>
          \A i \in 1 .. Len(call_ret'.receipts) :
              /\ call_ret'.receipts[i].tx_index = i - 1
              /\ call_ret'.receipts[i].tx_hash = ExecutedOrder(call_ret')[i]
              /\ call_ret'.receipts[i].used_gas = call_ret'.txs_resp[i].gas_used
              /\ call_ret'.receipts[i].ret = call_ret'.txs_resp[i].exit
              /\ call_ret'.receipts[i].logs = call_ret'.txs_resp[i].logs
              /\ call_ret'.receipts[i].code_address = call_ret'.txs_resp[i].code_address
              /\ call_ret'.receipts[i].tx_hash \in DOMAIN transactions'
              /\ transactions'[call_ret'.receipts[i].tx_hash].number
                    = call_ret'.block.number
              /\ call_ret'.receipts[i].log_index
                    = LogsBefore(call_ret'.receipts, i)]_vars

-----------------------------------------------------------------------------
(* Claims about block_hash *)

-----------------------------------------------------------------------------
(* Claims about the locks of the mempool *)

LockThreads == {Tid(t) : t \in LockInserters} \cup {CleanerTid, CallerTid}

\* who takes the lock of address_pending_cnter in this step
TakesCnter(who) ==
    \/ lk.apc_w # who /\ lk'.apc_w = who
    \/ who \notin lk.apc_r /\ who \in lk'.apc_r

-----------------------------------------------------------------------------
(* Claims about gas accounting *)

BalanceAt(root, a) == IF root[a].exists THEN root[a].balance ELSE 0

NonceAt(root, a) == IF root[a].exists THEN root[a].nonce ELSE 0

\* what the only transaction of a block moved away from its sender
Transferred(r) ==
    IF r.txs_resp[1].exit = "succeed" /\ r.txs[1].to # r.txs[1].sender
    THEN r.txs[1].value ELSE 0

\* C34: gas accounting creates no value: a block of one transaction with the
\* matching nonce, whose sender holds what tx_pre_check asks for, takes
\* gas_price * used_gas from the sender for gas, so that the sender's balance is
\* not higher after the block than before it, also when the balance is below
\* gas_price * gas_limit and the prepayment saturates
C34_GasNeverMints ==
    [][(/\ Returned("produce_block") /\ call_ret'.ret = "ok"
        /\ Len(call_ret'.txs) = 1
        /\ call_ret'.txs[1].sender # call_ret'.txs[1].to
        /\ BalanceAt(mgmt[TheProducer].prev_state_root, call_ret'.txs[1].sender)
              >= call_ret'.txs[1].gas_price * MIN_TRANSACTION_GAS_LIMIT
        /\ call_ret'.txs[1].nonce
              = NonceAt(mgmt[TheProducer].prev_state_root, call_ret'.txs[1].sender))
       => /\ BalanceAt(call_ret'.block.state_root, call_ret'.txs[1].sender)
               <= BalanceAt(mgmt[TheProducer].prev_state_root, call_ret'.txs[1].sender)
          /\ BalanceAt(mgmt[TheProducer].prev_state_root, call_ret'.txs[1].sender)
                - BalanceAt(call_ret'.block.state_root, call_ret'.txs[1].sender)
               = call_ret'.txs[1].gas_price * call_ret'.txs_resp[1].gas_used
                 + Transferred(call_ret')]_vars

-----------------------------------------------------------------------------
(* Claims about the order of proposed transactions *)

\* C35: in the list tx_take_propose returns, the transactions of one sender are
\* in ascending nonce order whatever their gas prices: none with a higher nonce
\* stands before one with a lower nonce
C35_SenderNoncesAscend ==
    [][Returned("tx_take_propose") =>
          \A i, j \in 1 .. Len(call_ret'.ret) :
              (i < j /\ call_ret'.ret[i].sender = call_ret'.ret[j].sender)
                 => call_ret'.ret[i].nonce <= call_ret'.ret[j].nonce]_vars

-----------------------------------------------------------------------------
(* Claims about the gas of a block *)

\* C36: every block persisted by produce_block has gas_used at most its
\* gas_limit, which is MAX_BLOCK_GAS_LIMIT, for any list of transactions that
\* each pass the pre-check of the mempool
C36_BlockGasWithinLimit ==
    \A n \in DOMAIN blocks : blocks[n].gas_used <= MAX_BLOCK_GAS_LIMIT

-----------------------------------------------------------------------------
(* Claims about the chain tip *)

\* C37: verify_proposal accepts only proposals that extend the chain tip: when
\* it returns Ok for p, p.number is the number of the latest persisted block plus
\* one and p.prev_hash is the hash of that block
C37_VerifiedExtendsTip ==
    [][(Returned("verify_proposal") /\ call_ret'.ret = "ok") =>
          /\ call_ret'.p.number = get_latest_block.number + 1
          /\ call_ret'.p.prev_hash = BlockHash(get_latest_block)]_vars

-----------------------------------------------------------------------------
(* Claims about the accounts of the runtime *)

\* C38: save_account followed by get_account round-trips: after save_account(addr,
\* acc) returned Ok, get_account(addr) answers acc, and get_account of another
\* address answers what it answered before the save
C38_SaveThenGet ==
    [][(/\ Returned("get_account")
        /\ call_ret # None
        /\ call_ret.op = "save_account"
        /\ call_ret.ok) =>
          IF call_ret'.address = call_ret.address
          THEN call_ret'.ok /\ call_ret'.account = call_ret.account
          ELSE /\ call_ret'.ok = call_ret.read_before[call_ret'.address].ok
               /\ call_ret'.account = call_ret.read_before[call_ret'.address].account]_vars

-----------------------------------------------------------------------------
(* Claims about staking *)

\* what the staking state records for a staker, over all validators
Recorded(state, staker) == SumOver(StakeOf(state, staker), DOMAIN state)

\* C39: after any sequence of successful stake_to, unstake_from and unstake_all
\* calls, for validators of any score, every validator in the staking state has
\* staking_total equal to the sum of the amounts of its stakers, and what an
\* unstake call takes from a staker's recorded stake is the amount it returns
C39_StakingTotals ==
    /\ [](\A v \in DOMAIN staking :
            staking[v].staking_total =
               SumOver(staking[v].storage, DOMAIN staking[v].storage))
    /\ [][((Returned("unstake_from") \/ Returned("unstake_all")) /\ call_ret'.ok) =>
            \A s \in Stakers :
               Recorded(staking, s) - Recorded(staking', s) =
                  IF s = call_ret'.staker THEN call_ret'.amount ELSE 0]_vars

-----------------------------------------------------------------------------
(* Claims about cosignatures *)

\* a cosignature that verifies against the serialized data under its key
CoSigValid(cs, data) == KeyDecodes(cs.vk) /\ Verify(cs.vk, cs.sig, BcsBytes(data))

\* C40: with a non-empty committee, check_cosigs returns an error whenever a
\* cosignature does not verify against the serialized data under its key, and
\* returns Ok only if every signer is in the committee, the signers' weight meets
\* the threshold fraction of the committee weight and every signature is valid
C40_CosigsChecked ==
    [][(Returned("check_cosigs") /\ call_ret'.cc.committee # EmptyMap) =>
          LET op == call_ret'.cosig_op
              cc == call_ret'.cc
          IN /\ (\E k \in DOMAIN op.cosigs : ~CoSigValid(op.cosigs[k], op.data))
                    => call_ret'.ret # "ok"
             /\ call_ret'.ret = "ok" =>
                   /\ \A k \in DOMAIN op.cosigs : k \in DOMAIN cc.committee
                   /\ ActualWeights(op.cosigs, cc.committee) * cc.rule.threshold[2]
                         >= cc.rule.threshold[1] * SumOver(cc.committee, DOMAIN cc.committee)
                   /\ \A k \in DOMAIN op.cosigs : CoSigValid(op.cosigs[k], op.data)]_vars

====
